---- MODULE Spec2Model ----
(***************************************************************************)
(* Verification model of nyml2003/kaubo-features.                          *)
(*                                                                         *)
(* Part 1: Utils::RingBuffer (lexer/src/Utils/RingBuffer.h), a bounded     *)
(*         byte FIFO guarded by one mutex and two condition variables.     *)
(* Part 2: Lexer::StateMachineManager                                      *)
(*         (lexer/src/Lexer/StateMachineManager.h), which drives a set of  *)
(*         state machines in lock-step and picks the best match.           *)
(*                                                                         *)
(* Part 3: Lexer::ExtensibleLexer (lexer/src/Lexer/Lexer.h) with the UTF-8  *)
(*         decoder of lexer/src/Utf8Utils.h.                               *)
(* Part 4: Parser::Parser (lexer/src/Parser/Parser.cpp) and                *)
(*         Parser::Kaubo::Parser (lexer/src/Parser/Kaubo/Parser.cpp).      *)
(*                                                                         *)
(* Every subsystem has its own specification; the variables of the other   *)
(* subsystems are held at their initial values by it.                      *)
(***************************************************************************)
EXTENDS Integers, Sequences, FiniteSets, TLC

(***************************************************************************)
(* Bounds of the model.                                                    *)
(***************************************************************************)
\* capacity handed to the RingBuffer constructor
Capacity == 2
\* number of threads using the ring buffer
NThreads == 2
\* number of push() calls that are started
MaxPush == 3

Threads == 1..NThreads
\* bytes a producer pushes; 0 is the value the backing vector starts with
PushBytes == {1, 2}
Byte == {0} \cup PushBytes

VARIABLES
  \* ---- RingBuffer fields (RingBuffer.h:156-165)
  m_buffer,     \* std::vector<char> m_buffer(capacity)
  m_head,       \* read index
  m_tail,       \* write index
  m_size,       \* number of stored bytes
  m_closed,     \* closed flag
  not_full,     \* threads asleep on the condition variable m_not_full
  not_empty,    \* threads asleep on the condition variable m_not_empty
  \* ---- threads
  pc,           \* position of every thread inside push()/pop()
  item,         \* push's parameter `item` / pop's local `item`
  \* ---- history (not program state)
  pushed,       \* bytes accepted by push(), in the order of the critical sections
  popped,       \* bytes taken by pop()/try_pop(), in the order of the critical sections
  lastOp,       \* the step taken last: [op, t, k, val]; t is 0 for an observer
  \* ---- StateMachineManager fields (StateMachineManager.h:32-34)
  machines,         \* MachineId -> MachineInfo (with the machine's own state)
  active_machines,  \* std::vector<MachineId>
  next_machine_id,
  \* ---- history (not program state)
  fed,              \* bytes given to process_event since the last reset()
  smOp,             \* the manager call made last, with what it returned
  \* ---- ExtensibleLexer fields (Lexer.h:28-33)
  buffer,           \* std::string buffer
  pos,              \* byte position in buffer, 0-based
  line,             \* current line, 1-based
  column,           \* current column, 1-based
  matchers,         \* std::vector<TokenMatcher>, by name
  last_utf8_error,  \* std::optional<Utf8Error>
  \* ---- history (not program state)
  lx_input,         \* every byte given to feed(), in order
  lx_feeds,         \* number of feed() calls
  lx_dropped,       \* number of bytes shrink_buffer() has cut off the front
  lx_skipped,       \* offsets in lx_input of the bytes skip_whitespace() passed
  tokens,           \* the tokens next_token() returned, with the offsets consumed
  lxOp,             \* the lexer call made last, with what it returned
  \* ---- Parser (Parser.h:31-32,71): its lexer, as the tokens it will hand over
  ps_source,        \* the kinds of the tokens m_lexer->next_token() returns, in order
  \* ---- history (not program state)
  ps_result,        \* what parse() returned
  ps_events,        \* the listener callbacks made during parse(), in order
  psOp,             \* the parser call made last
  \* ---- Utils::Utf8 (Utils/Utf8.h): the arguments and the result of a call
  u8_input,         \* std::string_view input, as bytes
  u8_call,          \* the call made last: [op, pos] or [op, codepoint]
  u8_result,        \* what the call returned
  \* ---- Utils::Result (Utils/Result.h): a Result and a combinator call on it
  rs_self,          \* the Result the combinator is called on
  rs_call,          \* the combinator called last and its function argument
  rs_out,           \* what the combinator returned and whether f was applied
  \* ---- GC fields (GC.h) and the GCObject of every object
  allObjects,       \* std::unordered_set<GCObject*> allObjects
  rootObjects,      \* std::unordered_set<GCObject*> rootObjects
  marked,           \* GCObject::marked of every object
  references,       \* what getReferences() of every object returns
  \* ---- history (not program state)
  deleted,          \* the objects `delete` was called on
  gcOp              \* the GC call made last

rbData == <<m_buffer, m_head, m_tail, m_size, m_closed>>
rbVars == <<m_buffer, m_head, m_tail, m_size, m_closed, not_full, not_empty,
            pc, item, pushed, popped, lastOp>>

smVars == <<machines, active_machines, next_machine_id, fed, smOp>>

lxVars == <<buffer, pos, line, column, matchers, last_utf8_error,
            lx_input, lx_feeds, lx_dropped, lx_skipped, tokens, lxOp>>

psVars == <<ps_source, ps_result, ps_events, psOp>>

u8Vars == <<u8_input, u8_call, u8_result>>

rsVars == <<rs_self, rs_call, rs_out>>

gcVars == <<allObjects, rootObjects, marked, references, deleted, gcOp>>

vars == <<rbVars, smVars, lxVars, psVars, u8Vars, rsVars, gcVars>>

\* what a call on one object leaves alone
notRB == <<smVars, lxVars, psVars, u8Vars, rsVars, gcVars>>
notSM == <<rbVars, lxVars, psVars, u8Vars, rsVars, gcVars>>
notLX == <<rbVars, smVars, psVars, u8Vars, rsVars, gcVars>>
notPS == <<rbVars, smVars, lxVars, u8Vars, rsVars, gcVars>>
notU8 == <<rbVars, smVars, lxVars, psVars, rsVars, gcVars>>
notRS == <<rbVars, smVars, lxVars, psVars, u8Vars, gcVars>>
notGC == <<rbVars, smVars, lxVars, psVars, u8Vars, rsVars>>

\* an AST node (Expr.h, Stmt.h, Module.h): its kind, its operator, the text
\* it carries, its children, and from: the index of its first token
Node(kind, op, text, kids, from) ==
  [kind |-> kind, op |-> op, text |-> text, kids |-> kids, from |-> from]

\* what an enter callback carries
NoNode == Node("none", "", 0, <<>>, 0)

\* no call of Utils::Utf8 made yet
U8Init ==
  /\ u8_input = <<>>
  /\ u8_call = [op |-> "init", arg |-> 0]
  /\ u8_result = [ok |-> FALSE, val |-> <<0, 0>>, err |-> "none"]

\* no Result made yet
RSInit ==
  /\ rs_self = [alt |-> "OkValue", value |-> 0]
  /\ rs_call = [op |-> "init", f |-> "none"]
  /\ rs_out = [result |-> [alt |-> "OkValue", value |-> 0], calls |-> <<>>]

\* the objects a program may create with new
Objects == {"k", "x", "y"}

\* GC after construction (GC.h:11-14,23), no object registered, and every
\* GCObject with marked = false (GCObject.h:11)
GCInit ==
  /\ allObjects = {}
  /\ rootObjects = {}
  /\ marked = [o \in Objects |-> FALSE]
  /\ references = [o \in Objects |-> {}]
  /\ deleted = {}
  /\ gcOp = [op |-> "init", outcome |-> "returned", collections |-> 0]

\* a parser that has not been given its lexer's tokens yet
PSInit ==
  /\ ps_source = <<>>
  /\ ps_result = [tag |-> "none", val |-> NoNode]
  /\ ps_events = <<>>
  /\ psOp = [op |-> "init", fe |-> "none"]

\* ExtensibleLexer after construction, Lexer.h:28-33,79
LXInit ==
  /\ buffer = <<>>
  /\ pos = 0
  /\ line = 1
  /\ column = 1
  /\ matchers = <<>>
  /\ last_utf8_error = "nullopt"
  /\ lx_input = <<>>
  /\ lx_feeds = 0
  /\ lx_dropped = 0
  /\ lx_skipped = {}
  /\ tokens = <<>>
  /\ lxOp = [op |-> "init", ret |-> <<>>]

Op(o, t, k, v) == [op |-> o, t |-> t, k |-> k, val |-> v]

\* what a call gives back: nothing, std::nullopt, a byte, a bool, or the
\* exception it throws (the spec's Closed and EmptyAndClosed)
None == <<"none">>
NullOpt == <<"nullopt">>
Closed == <<"Closed">>
EmptyAndClosed == <<"EmptyAndClosed">>
Some(b) == <<"some", b>>
Bool(x) == <<"bool", IF x THEN 1 ELSE 0>>

\* RingBuffer.h:149
is_empty_unlocked == m_size = 0
\* RingBuffer.h:152-154
is_full_unlocked == m_size = Capacity

\* state after RingBuffer(capacity): value-initialised vector, zeroed indices
RBInit ==
  /\ m_buffer = [i \in 0..(Capacity - 1) |-> 0]
  /\ m_head = 0
  /\ m_tail = 0
  /\ m_size = 0
  /\ m_closed = FALSE
  /\ not_full = {}
  /\ not_empty = {}
  /\ pc = [t \in Threads |-> "idle"]
  /\ item = [t \in Threads |-> 0]
  /\ pushed = <<>>
  /\ popped = <<>>
  /\ lastOp = Op("init", 0, 0, None)

(***************************************************************************)
(* RingBuffer: the pieces of push/pop/close that the actions are made of.  *)
(***************************************************************************)
\* push's wait predicate, RingBuffer.h:31
PushMayProceedNoWait == TRUE
PushMayProceed == ~is_full_unlocked \/ m_closed

\* pop's wait predicate, RingBuffer.h:50-52
PopMayProceed == ~is_empty_unlocked \/ m_closed

\* push throws, RingBuffer.h:33-35
PushThrowsOnlyWhenFull == m_closed /\ is_full_unlocked
PushThrows == m_closed

\* pop throws, RingBuffer.h:54-56
PopThrowsWhenClosed == m_closed
PopThrows == is_empty_unlocked /\ m_closed

\* m_tail = (m_tail + 1) % m_capacity, RingBuffer.h:39
NextTailStuck == m_tail
NextTail == (m_tail + 1) % Capacity

\* m_head = (m_head + 1) % m_capacity, RingBuffer.h:60 and :77
NextHead == (m_head + 1) % Capacity

\* the condition variable push() notifies, RingBuffer.h:43
PushNotifiesWrongQueue == not_full
PushNotifies == not_empty

\* the condition variable pop() and try_pop() notify, RingBuffer.h:64 and :80
PopNotifies == not_full

\* the threads close() wakes: notify_all on both, RingBuffer.h:110-111
CloseWakesProducersOnly == not_full
CloseWakes == not_full \cup not_empty

\* what try_peek / try_peek(k) / is_size_at_least leave behind: they assign
\* nothing, RingBuffer.h:85-104 and :139-142
AfterObserveAsTryPop ==
  IF m_size = 0 THEN rbData
  ELSE <<m_buffer, (m_head + 1) % Capacity, m_tail, m_size - 1, m_closed>>
AfterObserve == rbData

\* a thread leaves the wait set of its condition variable and has to take the
\* mutex again before it tests its predicate
Woken(p, ws) ==
  [t \in Threads |->
     IF t \in ws
     THEN (IF p[t] = "push_wait" THEN "push_woken"
           ELSE IF p[t] = "pop_wait" THEN "pop_woken" ELSE p[t])
     ELSE p[t]]

\* push() calls that are started and not yet finished
PushesInFlight == Cardinality({t \in Threads : pc[t] \in {"push_wait", "push_woken"}})

(***************************************************************************)
(* RingBuffer::push, RingBuffer.h:28-44.  The critical section (the wait   *)
(* predicate, the throw, the write) is one step because m_mutex is held;   *)
(* notify_one comes after lock.unlock() and is a step of its own.          *)
(***************************************************************************)
PushBody(t, b) ==
  IF PushMayProceed
  THEN /\ UNCHANGED not_full
       /\ IF PushThrows
          THEN /\ pc' = [pc EXCEPT ![t] = "idle"]
               /\ item' = [item EXCEPT ![t] = 0]
               /\ lastOp' = Op("push_throw", t, 0, Closed)
               /\ UNCHANGED <<m_buffer, m_head, m_tail, m_size, pushed>>
          ELSE /\ m_buffer' = [m_buffer EXCEPT ![m_tail] = b]
               /\ m_tail' = NextTail
               /\ m_size' = m_size + 1
               /\ pc' = [pc EXCEPT ![t] = "push_notify"]
               /\ item' = [item EXCEPT ![t] = 0]
               /\ pushed' = Append(pushed, b)
               /\ lastOp' = Op("push_write", t, 0, None)
               /\ UNCHANGED m_head
  ELSE /\ pc' = [pc EXCEPT ![t] = "push_wait"]
       /\ item' = [item EXCEPT ![t] = b]
       /\ not_full' = not_full \cup {t}
       /\ lastOp' = Op("push_block", t, 0, None)
       /\ UNCHANGED <<m_buffer, m_head, m_tail, m_size, pushed>>

Push(t, b) ==
  /\ pc[t] = "idle"
  /\ Len(pushed) + PushesInFlight < MaxPush
  /\ PushBody(t, b)
  /\ UNCHANGED <<m_closed, not_empty, popped>>
  /\ UNCHANGED notRB

PushResume(t) ==
  /\ pc[t] = "push_woken"
  /\ PushBody(t, item[t])
  /\ UNCHANGED <<m_closed, not_empty, popped>>
  /\ UNCHANGED notRB

\* m_not_empty.notify_one() and the return, RingBuffer.h:43-44
PushNotify(t) ==
  /\ pc[t] = "push_notify"
  /\ LET q == PushNotifies IN
       IF q = {}
       THEN /\ pc' = [pc EXCEPT ![t] = "idle"]
            /\ UNCHANGED <<not_full, not_empty>>
       ELSE \E w \in q :
              /\ pc' = [Woken(pc, {w}) EXCEPT ![t] = "idle"]
              /\ not_full' = not_full \ {w}
              /\ not_empty' = not_empty \ {w}
  /\ lastOp' = Op("push_return", t, 0, None)
  /\ UNCHANGED <<rbData, item, pushed, popped>>
  /\ UNCHANGED notRB

(***************************************************************************)
(* RingBuffer::pop, RingBuffer.h:47-66.                                    *)
(***************************************************************************)
PopBody(t) ==
  IF PopMayProceed
  THEN /\ UNCHANGED not_empty
       /\ IF PopThrows
          THEN /\ pc' = [pc EXCEPT ![t] = "idle"]
               /\ lastOp' = Op("pop_throw", t, 0, EmptyAndClosed)
               /\ UNCHANGED <<m_head, m_size, item, popped>>
          ELSE /\ item' = [item EXCEPT ![t] = m_buffer[m_head]]
               /\ m_head' = NextHead
               /\ m_size' = m_size - 1
               /\ pc' = [pc EXCEPT ![t] = "pop_notify"]
               /\ popped' = Append(popped, m_buffer[m_head])
               /\ lastOp' = Op("pop_take", t, 0, Some(m_buffer[m_head]))
  ELSE /\ pc' = [pc EXCEPT ![t] = "pop_wait"]
       /\ not_empty' = not_empty \cup {t}
       /\ lastOp' = Op("pop_block", t, 0, None)
       /\ UNCHANGED <<m_head, m_size, item, popped>>

Pop(t) ==
  /\ pc[t] = "idle"
  /\ PopBody(t)
  /\ UNCHANGED <<m_buffer, m_tail, m_closed, not_full, pushed>>
  /\ UNCHANGED notRB

PopResume(t) ==
  /\ pc[t] = "pop_woken"
  /\ PopBody(t)
  /\ UNCHANGED <<m_buffer, m_tail, m_closed, not_full, pushed>>
  /\ UNCHANGED notRB

\* m_not_full.notify_one() and `return item`, RingBuffer.h:64-65
PopNotify(t) ==
  /\ pc[t] = "pop_notify"
  /\ LET q == PopNotifies IN
       IF q = {}
       THEN /\ pc' = [pc EXCEPT ![t] = "idle"]
            /\ UNCHANGED <<not_full, not_empty>>
       ELSE \E w \in q :
              /\ pc' = [Woken(pc, {w}) EXCEPT ![t] = "idle"]
              /\ not_full' = not_full \ {w}
              /\ not_empty' = not_empty \ {w}
  /\ lastOp' = Op("pop_return", t, 0, Some(item[t]))
  /\ item' = [item EXCEPT ![t] = 0]
  /\ UNCHANGED <<rbData, pushed, popped>>
  /\ UNCHANGED notRB

(***************************************************************************)
(* RingBuffer::try_pop, RingBuffer.h:69-82: one critical section, the      *)
(* notify_one is made with the mutex held.                                 *)
(***************************************************************************)
TryPop(t) ==
  /\ pc[t] = "idle"
  /\ IF is_empty_unlocked
     THEN /\ lastOp' = Op("try_pop", t, 0, NullOpt)
          /\ UNCHANGED <<m_head, m_size, popped, pc, not_full, not_empty>>
     ELSE /\ m_head' = NextHead
          /\ m_size' = m_size - 1
          /\ popped' = Append(popped, m_buffer[m_head])
          /\ lastOp' = Op("try_pop", t, 0, Some(m_buffer[m_head]))
          /\ LET q == PopNotifies IN
               IF q = {}
               THEN UNCHANGED <<pc, not_full, not_empty>>
               ELSE \E w \in q :
                      /\ pc' = Woken(pc, {w})
                      /\ not_full' = not_full \ {w}
                      /\ not_empty' = not_empty \ {w}
  /\ UNCHANGED <<m_buffer, m_tail, m_closed, item, pushed>>
  /\ UNCHANGED notRB

(***************************************************************************)
(* The observers.                                                          *)
(***************************************************************************)
\* RingBuffer::try_peek(), RingBuffer.h:85-93
TryPeek(t) ==
  /\ pc[t] = "idle"
  /\ lastOp' = Op("try_peek", 0, 0,
                  IF is_empty_unlocked THEN NullOpt ELSE Some(m_buffer[m_head]))
  /\ m_buffer' = AfterObserve[1]
  /\ m_head' = AfterObserve[2]
  /\ m_tail' = AfterObserve[3]
  /\ m_size' = AfterObserve[4]
  /\ m_closed' = AfterObserve[5]
  /\ UNCHANGED <<not_full, not_empty, pc, item, pushed, popped>>
  /\ UNCHANGED notRB

\* RingBuffer::try_peek(size_t k), RingBuffer.h:96-104.  The index is
\* m_head + k with no reduction modulo the capacity and no comparison of k
\* with m_size; an index past the end of the vector reads memory the vector
\* does not own, so any byte can come back.
TryPeekK(t, k) ==
  /\ pc[t] = "idle"
  /\ IF is_empty_unlocked
     THEN lastOp' = Op("try_peek_k", 0, k, NullOpt)
     ELSE IF m_head + k < Capacity
          THEN lastOp' = Op("try_peek_k", 0, k, Some(m_buffer[m_head + k]))
          ELSE \E v \in Byte : lastOp' = Op("try_peek_k", 0, k, Some(v))
  /\ m_buffer' = AfterObserve[1]
  /\ m_head' = AfterObserve[2]
  /\ m_tail' = AfterObserve[3]
  /\ m_size' = AfterObserve[4]
  /\ m_closed' = AfterObserve[5]
  /\ UNCHANGED <<not_full, not_empty, pc, item, pushed, popped>>
  /\ UNCHANGED notRB

\* RingBuffer::is_size_at_least, RingBuffer.h:139-142
IsSizeAtLeast(t, n) ==
  /\ pc[t] = "idle"
  /\ lastOp' = Op("is_size_at_least", 0, n, Bool(m_size >= n))
  /\ m_buffer' = AfterObserve[1]
  /\ m_head' = AfterObserve[2]
  /\ m_tail' = AfterObserve[3]
  /\ m_size' = AfterObserve[4]
  /\ m_closed' = AfterObserve[5]
  /\ UNCHANGED <<not_full, not_empty, pc, item, pushed, popped>>
  /\ UNCHANGED notRB

(***************************************************************************)
(* RingBuffer::close, RingBuffer.h:107-112.                                *)
(***************************************************************************)
Close(t) ==
  /\ pc[t] = "idle"
  /\ m_closed' = TRUE
  /\ pc' = Woken(pc, CloseWakes)
  /\ not_full' = not_full \ CloseWakes
  /\ not_empty' = not_empty \ CloseWakes
  /\ lastOp' = Op("close", t, 0, None)
  /\ UNCHANGED <<m_buffer, m_head, m_tail, m_size, item, pushed, popped>>
  /\ UNCHANGED notRB

\* std::condition_variable::wait may return without a notification; the
\* predicate is then tested again (PushResume / PopResume)
SpuriousWake(t) ==
  /\ t \in not_full \cup not_empty
  /\ pc' = Woken(pc, {t})
  /\ not_full' = not_full \ {t}
  /\ not_empty' = not_empty \ {t}
  /\ lastOp' = Op("spurious", t, 0, None)
  /\ UNCHANGED <<rbData, item, pushed, popped>>
  /\ UNCHANGED notRB


(***************************************************************************)
(* StateMachine.  A machine is its token type, its accepting states and    *)
(* its transitions in registration order; state 0 is the initial state.    *)
(***************************************************************************)
\* number of machines registered with the manager
MaxMachines == 2
\* number of bytes given to process_event between two reset() calls
MaxFed == 2

Letters == {"i", "f"}
Digits == {"1"}
Alphabet == Letters \cup Digits \cup {"."}

\* TokenType values, Lexer/Type.h
If == 12
Literal_Integer == 100
Identifier == 120

\* Utils::Utf8::is_identifier_start / is_identifier_part / is_digit,
\* Utils/Utf8.h:223-239, on the bytes of Alphabet
is_identifier_start == Letters
is_identifier_part == Letters \cup Digits
is_digit == Digits

Transition(f, t, on) == [from |-> f, to |-> t, on |-> on]

\* create_keyword_machine, Lexer/Token/Json.h:165-196: one state per byte of
\* the keyword, the last one accepting
create_keyword_machineAcceptsPrefixes(type, keyword) ==
  [token_type |-> type,
   accepting |-> 1..Len(keyword),
   trans |-> [i \in 1..Len(keyword) |-> Transition(i - 1, i, {keyword[i]})]]

create_keyword_machine(type, keyword) ==
  [token_type |-> type,
   accepting |-> {Len(keyword)},
   trans |-> [i \in 1..Len(keyword) |-> Transition(i - 1, i, {keyword[i]})]]

\* create_identifier_machine, Lexer/Kaubo/Machines.h:215-234
create_identifier_machine ==
  [token_type |-> Identifier,
   accepting |-> {1},
   trans |-> <<Transition(0, 1, is_identifier_start),
               Transition(1, 1, is_identifier_part)>>]

\* create_integer_machine, Lexer/Kaubo/Machines.h:109-129
create_integer_machine ==
  [token_type |-> Literal_Integer,
   accepting |-> {1},
   trans |-> <<Transition(0, 1, is_digit), Transition(1, 1, is_digit)>>]

\* a machine a caller builds with add_state/add_transition for decimal
\* numbers: digits, then optionally a point and more digits.  State 2 (after
\* the point) is not accepting and is entered from the accepting state 1.
create_decimal_machine ==
  [token_type |-> 101,
   accepting |-> {1, 3},
   trans |-> <<Transition(0, 1, is_digit), Transition(1, 1, is_digit),
               Transition(1, 2, {"."}), Transition(2, 3, is_digit),
               Transition(3, 3, is_digit)>>]

\* the machines a caller registers
MachineLib ==
  {create_keyword_machine(If, <<"i", "f">>), create_identifier_machine,
   create_integer_machine, create_decimal_machine}

\* StateMachine::process_event: the outgoing transitions of the current state
\* are scanned in registration order and the first whose predicate holds is
\* taken; -1 when there is none (the machine rejects, its state is unchanged)
RECURSIVE FirstTransition(_, _, _, _)
FirstTransition(trans, cur, e, i) ==
  IF i > Len(trans) THEN -1
  ELSE IF trans[i].from = cur /\ e \in trans[i].on THEN trans[i].to
  ELSE FirstTransition(trans, cur, e, i + 1)

machine_process_event(m, cur, e) == FirstTransition(m.trans, cur, e, 1)

\* StateMachine::is_in_accepting_state
is_in_accepting_state(m, cur) == cur \in m.accepting

(***************************************************************************)
(* StateMachineManager, Lexer/StateMachineManager.h.                       *)
(***************************************************************************)
SMOp(o, b, r) == [op |-> o, byte |-> b, ret |-> r]

\* static_cast<MachineId>(-1), StateMachineManager.h:100
NoMachine == -1

\* state after construction, StateMachineManager.h:32-37
SMInit ==
  /\ machines = <<>>
  /\ active_machines = <<>>
  /\ next_machine_id = 0
  /\ fed = <<>>
  /\ smOp = SMOp("init", "", <<>>)

\* the orders in which a set of ids can be iterated
Perms(S) ==
  {f \in [1..Cardinality(S) -> S] : \A i, j \in 1..Cardinality(S) : f[i] = f[j] => i = j}

\* add_machine with the id taken one too low: the entry of the machine
\* registered last is overwritten
AddMachineOverwritesLast(m) ==
  /\ next_machine_id < MaxMachines
  /\ LET id == IF next_machine_id = 0 THEN 0 ELSE next_machine_id - 1 IN
       /\ machines' = [i \in (DOMAIN machines) \cup {id} |->
                         IF i = id
                         THEN [machine |-> m, current |-> 0, match_length |-> 0,
                               is_active |-> TRUE, has_accepted |-> FALSE]
                         ELSE machines[i]]
       /\ active_machines' = Append(active_machines, id)
       /\ smOp' = SMOp("add_machine", "", <<id>>)
  /\ next_machine_id' = next_machine_id + 1
  /\ UNCHANGED fed
  /\ UNCHANGED notSM

\* add_machine, StateMachineManager.h:45-57
AddMachine(m) ==
  /\ next_machine_id < MaxMachines
  /\ machines' = [id \in (DOMAIN machines) \cup {next_machine_id} |->
                    IF id = next_machine_id
                    THEN [machine |-> m, current |-> 0, match_length |-> 0,
                          is_active |-> TRUE, has_accepted |-> FALSE]
                    ELSE machines[id]]
  /\ active_machines' = Append(active_machines, next_machine_id)
  /\ next_machine_id' = next_machine_id + 1
  /\ smOp' = SMOp("add_machine", "", <<next_machine_id>>)
  /\ UNCHANGED fed
  /\ UNCHANGED notSM

\* the loop body with match_length counted before the machine is asked
ProcessOneCountsRejected(info, e) ==
  LET nxt == machine_process_event(info.machine, info.current, e) IN
    IF nxt # -1
    THEN [info EXCEPT !.current = nxt,
                      !.match_length = @ + 1,
                      !.has_accepted = @ \/ is_in_accepting_state(info.machine, nxt)]
    ELSE [info EXCEPT !.is_active = FALSE, !.match_length = @ + 1]

\* the body of the loop of process_event for one id, StateMachineManager.h:69-88
ProcessOne(info, e) ==
  LET nxt == machine_process_event(info.machine, info.current, e) IN
    IF nxt # -1
    THEN [info EXCEPT !.current = nxt,
                      !.match_length = @ + 1,
                      !.has_accepted = @ \/ is_in_accepting_state(info.machine, nxt)]
    ELSE [info EXCEPT !.is_active = FALSE]

\* the loop of process_event, StateMachineManager.h:65-89: the machine table,
\* new_active_machines and any_active after the ids act[i..] were handled
RECURSIVE ProcessLoop(_, _, _, _, _, _)
ProcessLoop(ms, act, i, e, new_active, any_active) ==
  IF i > Len(act)
  THEN [machines |-> ms, new_active |-> new_active, any_active |-> any_active]
  ELSE LET id == act[i] IN
    IF ~ms[id].is_active
    THEN ProcessLoop(ms, act, i + 1, e, new_active, any_active)
    ELSE LET info == ProcessOne(ms[id], e) IN
      IF info.is_active
      THEN ProcessLoop([ms EXCEPT ![id] = info], act, i + 1, e,
                       Append(new_active, id), TRUE)
      ELSE ProcessLoop([ms EXCEPT ![id] = info], act, i + 1, e,
                       new_active, any_active)

\* the value process_event returns, StateMachineManager.h:65,84,92; r is the
\* result of the loop
ProcessEventReturnsHadActive(r) == active_machines # <<>>
ProcessEventReturns(r) == r.any_active

\* process_event, StateMachineManager.h:64-93
ProcessEvent(e) ==
  /\ Len(fed) < MaxFed
  /\ LET r == ProcessLoop(machines, active_machines, 1, e, <<>>, FALSE) IN
       /\ machines' = r.machines
       /\ active_machines' = r.new_active
       /\ smOp' = SMOp("process_event", e, <<IF ProcessEventReturns(r) THEN 1 ELSE 0>>)
  /\ fed' = Append(fed, e)
  /\ UNCHANGED next_machine_id
  /\ UNCHANGED notSM

\* the comparison select_best_match makes for one accepted machine,
\* StateMachineManager.h:113-123: TRUE when the machine replaces the best so far
BetterHigherTypeWins(info, max_length, max_priority) ==
  \/ info.match_length > max_length
  \/ (info.match_length = max_length /\ info.machine.token_type > max_priority)
BetterNoTieBreak(info, max_length, max_priority) ==
  info.match_length > max_length
Better(info, max_length, max_priority) ==
  \/ info.match_length > max_length
  \/ (info.match_length = max_length /\ info.machine.token_type < max_priority)

\* the loop of select_best_match over the machine table iterated in the
\* order ord, StateMachineManager.h:100-124
RECURSIVE SelectLoop(_, _, _, _, _, _)
SelectLoop(ms, ord, i, best_id, max_length, max_priority) ==
  IF i > Len(ord) THEN <<best_id, max_length>>
  ELSE LET info == ms[ord[i]] IN
    IF ~info.has_accepted
    THEN SelectLoop(ms, ord, i + 1, best_id, max_length, max_priority)
    ELSE IF Better(info, max_length, max_priority)
    THEN SelectLoop(ms, ord, i + 1, ord[i], info.match_length, info.machine.token_type)
    ELSE SelectLoop(ms, ord, i + 1, best_id, max_length, max_priority)

\* select_best_match, StateMachineManager.h:99-130, as <<id of the winner,
\* match length>>; std::numeric_limits<uint8_t>::max() is 255
select_best_match(ms, ord) == SelectLoop(ms, ord, 1, NoMachine, 0, 255)

\* a call of select_best_match; std::unordered_map iterates in an order the
\* caller does not control
SelectBestMatch ==
  /\ machines # <<>>
  /\ \E ord \in Perms(DOMAIN machines) :
       smOp' = SMOp("select_best_match", "", select_best_match(machines, ord))
  /\ UNCHANGED <<machines, active_machines, next_machine_id, fed>>
  /\ UNCHANGED notSM

\* reset without the clear() of active_machines
ResetWithoutClear ==
  /\ machines' = [id \in DOMAIN machines |->
                    [machines[id] EXCEPT !.current = 0, !.match_length = 0,
                                         !.is_active = TRUE, !.has_accepted = FALSE]]
  /\ \E ord \in Perms(DOMAIN machines) : active_machines' = active_machines \o ord
  /\ fed' = <<>>
  /\ smOp' = SMOp("reset", "", <<>>)
  /\ UNCHANGED next_machine_id
  /\ UNCHANGED notSM

\* reset, StateMachineManager.h:135-144: active_machines is refilled in the
\* iteration order of the unordered_map
Reset ==
  /\ machines' = [id \in DOMAIN machines |->
                    [machines[id] EXCEPT !.current = 0, !.match_length = 0,
                                         !.is_active = TRUE, !.has_accepted = FALSE]]
  /\ \E ord \in Perms(DOMAIN machines) : active_machines' = ord
  /\ fed' = <<>>
  /\ smOp' = SMOp("reset", "", <<>>)
  /\ UNCHANGED next_machine_id
  /\ UNCHANGED notSM

\* has_active_machines, StateMachineManager.h:149-151
has_active_machines == active_machines # <<>>

(***************************************************************************)
(* Specification of the state machine manager.                             *)
(***************************************************************************)
InitSM == RBInit /\ SMInit /\ LXInit /\ PSInit /\ U8Init /\ RSInit /\ GCInit

NextSM ==
  \/ \E m \in MachineLib : AddMachine(m)
  \/ \E e \in Alphabet : ProcessEvent(e)
  \/ SelectBestMatch
  \/ Reset

SpecSM == InitSM /\ [][NextSM]_vars

(***************************************************************************)
(* A keyword machine on its own: it is built, and bytes are offered to its *)
(* process_event one after the other, also after it has rejected one.      *)
(***************************************************************************)
\* TokenType::Var, Lexer/Type.h
Var == 11

\* create_var_machine, Lexer/Machines.h:188-206: s0 -v-> s1 -a-> s2 -r-> s3,
\* s3 accepting
create_var_machine ==
  [token_type |-> Var,
   accepting |-> {3},
   trans |-> <<Transition(0, 1, {"v"}), Transition(1, 2, {"a"}),
               Transition(2, 3, {"r"})>>]

\* the keyword machines built: var by hand, if from its spelling
KeywordMachines == {create_var_machine, create_keyword_machine(If, <<"i", "f">>)}

\* the bytes offered to a keyword machine
KeywordBytes == {"v", "a", "r", "i", "f"}

\* number of bytes offered to a keyword machine
MaxOffered == 4

\* the machine is built and handed over in its initial state
BuildKeyword ==
  /\ machines = <<>>
  /\ \E m \in KeywordMachines : AddMachine(m)

\* StateMachine::process_event(e) of the machine: true and the transition
\* taken, or false and the state kept
Offer(e) ==
  /\ machines # <<>>
  /\ Len(fed) < MaxOffered
  /\ \E nxt \in {machine_process_event(machines[0].machine, machines[0].current, e)} :
       /\ machines' = [machines EXCEPT ![0].current = IF nxt = -1 THEN @ ELSE nxt]
       /\ smOp' = SMOp("machine_process_event", e, <<IF nxt = -1 THEN 0 ELSE 1>>)
  /\ fed' = Append(fed, e)
  /\ UNCHANGED <<active_machines, next_machine_id>>
  /\ UNCHANGED notSM

NextKeyword == BuildKeyword \/ \E e \in KeywordBytes : Offer(e)

SpecKeyword == InitSM /\ [][NextKeyword]_vars

(***************************************************************************)
(* The front ends: the token enums that have keyword kinds and an          *)
(* identifier kind, and the machines their builders register.              *)
(***************************************************************************)
\* enum TokenType of Lexer/Type.h: Var = 11 ... Await = 35, Identifier = 120
FrontEndLexer == [keywords |-> 11..35, identifier |-> Identifier]

\* enum TokenType of Lexer/Kaubo/TokenType.h: Var = 1, IntType = 2,
\* Identifier = 21
FrontEndKaubo == [keywords |-> {1, 2}, identifier |-> 21]

\* enum TokenType of Lexer/Token/Type1.h: Boolean = 5, Null = 6, Keyword = 7,
\* Identifier = 30
FrontEndType1 == [keywords |-> {5, 6, 7}, identifier |-> 30]

FrontEnds == {FrontEndLexer, FrontEndKaubo, FrontEndType1}

\* the keyword texts: a keyword is a word the identifier machine accepts too
KeywordWords == {<<"i">>, <<"i", "f">>}

\* create_identifier_machine of a front end: the same machine with that
\* enum's Identifier as token type
identifier_machine(type) == [create_identifier_machine EXCEPT !.token_type = type]

\* Builder::build: the keyword machines are registered before the identifier
\* machine; one keyword machine stands for them
BuildFrontEnd(fe, type, keyword) ==
  /\ machines = <<>>
  /\ type \in fe.keywords
  /\ LET fresh(m) == [machine |-> m, current |-> 0, match_length |-> 0,
                      is_active |-> TRUE, has_accepted |-> FALSE]
     IN machines' = (0 :> fresh(create_keyword_machine(type, keyword)))
                      @@ (1 :> fresh(identifier_machine(fe.identifier)))
  /\ active_machines' = <<0, 1>>
  /\ next_machine_id' = 2
  /\ smOp' = SMOp("build", "", <<>>)
  /\ UNCHANGED fed
  /\ UNCHANGED notSM

InitFE == RBInit /\ SMInit /\ LXInit /\ PSInit /\ U8Init /\ RSInit /\ GCInit

NextFE ==
  \/ \E fe \in FrontEnds, type \in 1..35, w \in KeywordWords : BuildFrontEnd(fe, type, w)
  \/ \E e \in Alphabet : ProcessEvent(e)
  \/ SelectBestMatch
  \/ Reset

SpecFE == InitFE /\ [][NextFE]_vars

(***************************************************************************)
(* Specification of the ring buffer.                                       *)
(***************************************************************************)
InitRB == RBInit /\ SMInit /\ LXInit /\ PSInit /\ U8Init /\ RSInit /\ GCInit

NextRB ==
  \/ \E t \in Threads, b \in PushBytes : Push(t, b)
  \/ \E t \in Threads : PushResume(t)
  \/ \E t \in Threads : PushNotify(t)
  \/ \E t \in Threads : Pop(t)
  \/ \E t \in Threads : PopResume(t)
  \/ \E t \in Threads : PopNotify(t)
  \/ \E t \in Threads : TryPop(t)
  \/ \E t \in Threads : TryPeek(t)
  \/ \E t \in Threads, k \in 0..Capacity : TryPeekK(t, k)
  \/ \E t \in Threads, n \in 0..(Capacity + 1) : IsSizeAtLeast(t, n)
  \/ \E t \in Threads : Close(t)
  \/ \E t \in Threads : SpuriousWake(t)

SpecRB == InitRB /\ [][NextRB]_vars

\* A thread that can run does run: one that was notified takes the mutex
\* again, one that left its critical section makes its notify_one call.
\* Nothing is assumed about which waiter a notify_one picks, about spurious
\* wake-ups, or about threads starting new calls.
FairRB ==
  \A t \in Threads :
    /\ WF_vars(PushResume(t))
    /\ WF_vars(PushNotify(t))
    /\ WF_vars(PopResume(t))
    /\ WF_vars(PopNotify(t))

\* The calls that touch the condition variables.  The observers take and give
\* back the mutex without waiting, notifying or writing a member, so they are
\* left out of the specification the liveness claims are checked under.
NextRBLive ==
  \/ \E t \in Threads, b \in PushBytes : Push(t, b)
  \/ \E t \in Threads : PushResume(t)
  \/ \E t \in Threads : PushNotify(t)
  \/ \E t \in Threads : Pop(t)
  \/ \E t \in Threads : PopResume(t)
  \/ \E t \in Threads : PopNotify(t)
  \/ \E t \in Threads : TryPop(t)
  \/ \E t \in Threads : Close(t)
  \/ \E t \in Threads : SpuriousWake(t)

SpecRBFair == InitRB /\ [][NextRBLive]_vars /\ FairRB

\* ---- what the history says the queue holds
\* the bytes stored, oldest first
Stored == SubSeq(pushed, Len(popped) + 1, Len(pushed))

IsPrefix(s, r) == Len(s) <= Len(r) /\ \A i \in 1..Len(s) : s[i] = r[i]

TypeOKRB ==
  /\ m_buffer \in [0..(Capacity - 1) -> Byte]
  /\ m_head \in 0..(Capacity - 1)
  /\ m_tail \in 0..(Capacity - 1)
  /\ m_closed \in BOOLEAN
  /\ not_full \subseteq Threads
  /\ not_empty \subseteq Threads

(***************************************************************************)
(* UTF-8 decoding, Utf8Utils.h.  Bytes are numbers 0..255, a string is a   *)
(* sequence of bytes, positions are 0-based as in the code.                *)
(***************************************************************************)
At(input, p) == input[p + 1]

Ok(v) == [ok |-> TRUE, val |-> v, err |-> "none"]
Err(e) == [ok |-> FALSE, val |-> <<0, 0>>, err |-> e]

\* get_expected_byte_count, Utf8Utils.h:76-92: 0xxxxxxx, 110xxxxx, 1110xxxx,
\* 11110xxx; anything else is not a leading byte
get_expected_byte_count(leading_byte) ==
  IF leading_byte < 128 THEN Ok(1)
  ELSE IF leading_byte \in 192..223 THEN Ok(2)
  ELSE IF leading_byte \in 224..239 THEN Ok(3)
  ELSE IF leading_byte \in 240..247 THEN Ok(4)
  ELSE Err("InvalidLeadingByte")

\* validate_continuation_bytes, Utf8Utils.h:101-114: every following byte is
\* 10xxxxxx
validate_continuation_bytes(start_pos, expected_length, input) ==
  \A i \in 1..(expected_length - 1) : At(input, start_pos + i) \in 128..191

\* compute_codepoint, Utf8Utils.h:124-164
compute_codepoint(leading_byte, start_pos, expected_length, input) ==
  CASE expected_length = 1 -> leading_byte
    [] expected_length = 2 ->
         (leading_byte % 32) * 64 + (At(input, start_pos + 1) % 64)
    [] expected_length = 3 ->
         (leading_byte % 16) * 4096 + (At(input, start_pos + 1) % 64) * 64
           + (At(input, start_pos + 2) % 64)
    [] expected_length = 4 ->
         (leading_byte % 8) * 262144 + (At(input, start_pos + 1) % 64) * 4096
           + (At(input, start_pos + 2) % 64) * 64 + (At(input, start_pos + 3) % 64)

is_overlong_encodingTwoByteMinimum(codepoint, byte_count) ==
  CASE byte_count = 1 -> codepoint > 127
    [] byte_count = 2 -> codepoint < 128
    [] byte_count = 3 -> codepoint < 128
    [] byte_count = 4 -> codepoint < 65536

\* is_overlong_encoding, Utf8Utils.h:173-194
is_overlong_encoding(codepoint, byte_count) ==
  CASE byte_count = 1 -> codepoint > 127
    [] byte_count = 2 -> codepoint < 128
    [] byte_count = 3 -> codepoint < 2048
    [] byte_count = 4 -> codepoint < 65536

\* get_utf8_codepoint, Utf8Utils.h:197-259: Ok(<<codepoint, length>>) or the
\* error
get_utf8_codepoint(input, p) ==
  IF p >= Len(input) THEN Err("InvalidPosition")
  ELSE LET leading_byte == At(input, p)
           expected == get_expected_byte_count(leading_byte)
       IN IF ~expected.ok THEN Err(expected.err)
          ELSE IF p + expected.val > Len(input) THEN Err("IncompleteSequence")
          ELSE IF ~validate_continuation_bytes(p, expected.val, input)
               THEN Err("InvalidContinuation")
          ELSE LET codepoint == compute_codepoint(leading_byte, p, expected.val, input)
               IN IF is_overlong_encoding(codepoint, expected.val)
                  THEN Err("OverlongEncoding")
                  ELSE IF codepoint > 1114111 THEN Err("InvalidCodePoint")
                  ELSE Ok(<<codepoint, expected.val>>)

\* static_cast<uint8_t>(x)
U8Cast(x) == x % 256

to_utf8ThreeBytesFrom7FF(codepoint) ==
  IF codepoint > 1114111 THEN <<>>
  ELSE IF codepoint <= 127 THEN <<U8Cast(codepoint)>>
  ELSE IF codepoint < 2047
       THEN <<192 + (U8Cast(codepoint \div 64) % 32), 128 + (U8Cast(codepoint) % 64)>>
  ELSE IF codepoint < 65536
       THEN <<224 + (U8Cast(codepoint \div 4096) % 16),
              128 + (U8Cast(codepoint \div 64) % 64),
              128 + (U8Cast(codepoint) % 64)>>
  ELSE <<240 + (U8Cast(codepoint \div 262144) % 8),
         128 + (U8Cast(codepoint \div 4096) % 64),
         128 + (U8Cast(codepoint \div 64) % 64),
         128 + (U8Cast(codepoint) % 64)>>

\* to_utf8, Utils/Utf8.h:319-375: the bytes of the codepoint, none for a
\* codepoint above 0x10FFFF; x >> n is x \div 2^n, masking with 0x1F, 0x0F,
\* 0x07, 0x3F is % 32, % 16, % 8, % 64 after the cast to uint8_t
to_utf8(codepoint) ==
  IF codepoint > 1114111 THEN <<>>
  ELSE IF codepoint <= 127 THEN <<U8Cast(codepoint)>>
  ELSE IF codepoint <= 2047
       THEN <<192 + (U8Cast(codepoint \div 64) % 32), 128 + (U8Cast(codepoint) % 64)>>
  ELSE IF codepoint < 65536
       THEN <<224 + (U8Cast(codepoint \div 4096) % 16),
              128 + (U8Cast(codepoint \div 64) % 64),
              128 + (U8Cast(codepoint) % 64)>>
  ELSE <<240 + (U8Cast(codepoint \div 262144) % 8),
         128 + (U8Cast(codepoint \div 4096) % 64),
         128 + (U8Cast(codepoint \div 64) % 64),
         128 + (U8Cast(codepoint) % 64)>>

\* the positions of input that get_utf8_codepoint(input, p) reads: input[pos]
\* once pos < input.size() (Utils/Utf8.h:262-267), and the continuation bytes
\* once the length fits (Utils/Utf8.h:275-286); validate_continuation_bytes
\* stops at the first byte that fails
RECURSIVE ContinuationReads(_, _, _, _)
ContinuationReads(input, start_pos, expected_length, i) ==
  IF i >= expected_length THEN {}
  ELSE IF At(input, start_pos + i) \notin 128..191 THEN {start_pos + i}
  ELSE {start_pos + i} \cup ContinuationReads(input, start_pos, expected_length, i + 1)

ReadPositions(input, p) ==
  IF p >= Len(input) THEN {}
  ELSE IF ~get_expected_byte_count(At(input, p)).ok THEN {p}
  ELSE IF p + get_expected_byte_count(At(input, p)).val > Len(input) THEN {p}
  ELSE {p} \cup ContinuationReads(input, p, get_expected_byte_count(At(input, p)).val, 1)

(***************************************************************************)
(* The codec at work: a string is written byte by byte and decoded at a    *)
(* position, or a codepoint is encoded and the bytes decoded again.        *)
(***************************************************************************)
InitU8 == RBInit /\ SMInit /\ LXInit /\ PSInit /\ U8Init /\ RSInit /\ GCInit

\* the longest string given to get_utf8_codepoint
MaxU8Len == 4

\* the bytes of the strings: A, the continuation bytes 80, 90 and BF, the
\* leading bytes C0, C3, E0, F0 and F4, and F8, which is neither
U8Bytes == {65, 128, 144, 191, 192, 195, 224, 240, 244, 248}

\* one more byte of the string
U8Write ==
  /\ u8_call.op \in {"init", "write"}
  /\ Len(u8_input) < MaxU8Len
  /\ \E b \in U8Bytes : u8_input' = Append(u8_input, b)
  /\ u8_call' = [op |-> "write", arg |-> 0]
  /\ UNCHANGED u8_result
  /\ UNCHANGED notU8

\* get_utf8_codepoint(input, pos), Utils/Utf8.h:259-317
Decode ==
  /\ u8_call.op \in {"init", "write"}
  /\ \E p \in 0..MaxU8Len :
       /\ u8_call' = [op |-> "get_utf8_codepoint", arg |-> p]
       /\ u8_result' = get_utf8_codepoint(u8_input, p)
  /\ UNCHANGED u8_input
  /\ UNCHANGED notU8

NextU8 == U8Write \/ Decode

SpecU8 == InitU8 /\ [][NextU8]_vars

\* the codepoints up to this one are all encoded
MaxLowCodepoint == 2100

\* the distance between the codepoints encoded above MaxLowCodepoint
CodepointStride == 257

\* the codepoints encoded: the low ones, which hold the steps from one to two
\* and from two to three bytes, one in every CodepointStride up to 0x110000,
\* and the two sides of D800, E000, 10000 and 10FFFF
Codepoints ==
  (0..MaxLowCodepoint)
    \cup {k * CodepointStride : k \in 0..(1114112 \div CodepointStride)}
    \cup {55295, 55296, 57343, 57344, 65535, 65536, 1114111, 1114112}

\* decode(to_utf8(cp), 0): to_utf8 (Utils/Utf8.h:319-375), then
\* get_utf8_codepoint at position 0
RoundTrip ==
  /\ u8_call.op = "init"
  /\ \E cp \in Codepoints :
       /\ u8_input' = to_utf8(cp)
       /\ u8_call' = [op |-> "to_utf8", arg |-> cp]
       /\ u8_result' = get_utf8_codepoint(to_utf8(cp), 0)
  /\ UNCHANGED notU8

NextCodec == RoundTrip

SpecCodec == InitU8 /\ [][NextCodec]_vars

(***************************************************************************)
(* utils::Result<T, E> (Utils/Result.h): a variant of OkValue and ErrValue *)
(* and the combinators map, and_then, map_err and or_else.  T and E are    *)
(* small integers; a combinator's outcome is the Result it returns and the *)
(* arguments f was called with.                                            *)
(***************************************************************************)
\* largest value or error held by a Result
MaxValue == 7

ResultValues == 0..MaxValue

\* Result(OkType ok), Result.h:115-118, from ok(value)
ResultOk(value) == [alt |-> "OkValue", value |-> value]

\* Result(ErrType err), Result.h:127-130, from err(error)
ResultErr(error) == [alt |-> "ErrValue", value |-> error]

\* is_ok, Result.h:145-147
is_ok(self) == self.alt = "OkValue"

\* is_err, Result.h:149-151
is_err(self) == self.alt = "ErrValue"

\* unwrap, Result.h:165-172, called where is_ok() holds
unwrap(self) == self.value

\* unwrap_err, Result.h:184-190, called where is_err() holds
unwrap_err(self) == self.value

\* forward, Result.h:83-88
forward(self) == ResultOk(unwrap(self))

\* forward_err, Result.h:98-103
forward_err(self) == ResultErr(unwrap_err(self))

\* the functions handed to map and map_err
PlainFunctions == {"successor", "twice"}

\* the functions handed to and_then and or_else, which return a Result
ResultFunctions == {"ok_successor", "err_twice"}

\* f(x) for each function
Invoke(f, x) ==
  CASE f = "successor" -> (x + 1) % (MaxValue + 1)
    [] f = "twice" -> (2 * x) % (MaxValue + 1)
    [] f = "ok_successor" -> ResultOk((x + 1) % (MaxValue + 1))
    [] OTHER -> ResultErr((2 * x) % (MaxValue + 1))

\* what a combinator did: the Result returned, the arguments f was called with
Returned(result, calls) == [result |-> result, calls |-> calls]

\* map, Result.h:200-213
mapAppliesAlways(self, f) ==
  Returned(ResultOk(Invoke(f, unwrap(self))), <<unwrap(self)>>)

map(self, f) ==
  IF is_ok(self)
  THEN Returned(ResultOk(Invoke(f, unwrap(self))), <<unwrap(self)>>)
  ELSE Returned(forward_err(self), <<>>)

\* and_then, Result.h:236-251
and_then(self, f) ==
  IF is_ok(self)
  THEN Returned(Invoke(f, unwrap(self)), <<unwrap(self)>>)
  ELSE Returned(forward_err(self), <<>>)

\* map_err, Result.h:276-289
map_err(self, f) ==
  IF is_err(self)
  THEN Returned(ResultErr(Invoke(f, unwrap_err(self))), <<unwrap_err(self)>>)
  ELSE Returned(forward(self), <<>>)

\* or_else, Result.h:321-340
or_else(self, f) ==
  IF is_err(self)
  THEN Returned(Invoke(f, unwrap_err(self)), <<unwrap_err(self)>>)
  ELSE Returned(forward(self), <<>>)

InitResult == RBInit /\ SMInit /\ LXInit /\ PSInit /\ U8Init /\ RSInit /\ GCInit

\* a Result is constructed from ok(v) or err(v)
Construct ==
  /\ \E v \in ResultValues : rs_self' \in {ResultOk(v), ResultErr(v)}
  /\ rs_call' = [op |-> "Result", f |-> "none"]
  /\ rs_out' = Returned(rs_self', <<>>)
  /\ UNCHANGED notRS

\* self.map(f)
Map ==
  /\ rs_call.op # "init"
  /\ \E f \in PlainFunctions :
       /\ rs_call' = [op |-> "map", f |-> f]
       /\ rs_out' = map(rs_self, f)
  /\ UNCHANGED <<rs_self, notRS>>

\* self.and_then(f)
AndThen ==
  /\ rs_call.op # "init"
  /\ \E f \in ResultFunctions :
       /\ rs_call' = [op |-> "and_then", f |-> f]
       /\ rs_out' = and_then(rs_self, f)
  /\ UNCHANGED <<rs_self, notRS>>

\* self.map_err(f)
MapErr ==
  /\ rs_call.op # "init"
  /\ \E f \in PlainFunctions :
       /\ rs_call' = [op |-> "map_err", f |-> f]
       /\ rs_out' = map_err(rs_self, f)
  /\ UNCHANGED <<rs_self, notRS>>

\* self.or_else(f)
OrElse ==
  /\ rs_call.op # "init"
  /\ \E f \in ResultFunctions :
       /\ rs_call' = [op |-> "or_else", f |-> f]
       /\ rs_out' = or_else(rs_self, f)
  /\ UNCHANGED <<rs_self, notRS>>

NextResult == Construct \/ Map \/ AndThen \/ MapErr \/ OrElse

SpecResult == InitResult /\ [][NextResult]_vars

(***************************************************************************)
(* The mark-and-sweep collector (gc/src/GC.cpp, GCObject.cpp).  The        *)
(* objects exist from the start, unregistered; the program links them,     *)
(* then registers them, makes them roots and collects.  references[o] is   *)
(* what o's getReferences() returns, marked[o] is o's mark flag.  The      *)
(* program never passes a deleted object to the collector itself, but an   *)
(* object may keep a reference to one the collector deleted.               *)
(***************************************************************************)
\* references an object holds at most
MaxReferences == 1

\* calls of collectGarbage
MaxCollections == 2

RECURSIVE GCObject_mark(_, _), MarkEach(_, _)

\* GCObject::mark, GCObject.cpp:4-14, on obj with the mark flags mk: nothing
\* when obj is marked, else obj is marked and each reference is marked
GCObject_mark(obj, mk) ==
  IF mk[obj] THEN mk
  ELSE MarkEach(references[obj], [mk EXCEPT ![obj] = TRUE])

\* the loops of GC.cpp:47-51 and GCObject.cpp:8-12 over a set of objects
MarkEach(objs, mk) ==
  IF objs = {} THEN mk
  ELSE MarkEach(objs \ {CHOOSE o \in objs : TRUE},
                GCObject_mark(CHOOSE o \in objs : TRUE, mk))

\* GC::mark, GC.cpp:45-52
mark == MarkEach(rootObjects, marked)

\* the objects mark() was called on: the roots and the references of every
\* object whose flag it set
MarkCalledOn(mk) ==
  rootObjects \cup UNION {references[o] : o \in {m \in Objects : mk[m] /\ ~marked[m]}}

\* toDelete of GC::sweep, GC.cpp:58-64, with the mark flags mk
toDelete(mk) == {obj \in allObjects : ~mk[obj]}

\* GC::sweep, GC.cpp:54-71: the unmarked objects of allObjects are
\* unregistered and deleted, the marked ones of allObjects are unmarked
sweep(mk) ==
  /\ marked' = [obj \in Objects |-> IF obj \in allObjects THEN FALSE ELSE mk[obj]]
  /\ allObjects' = allObjects \ toDelete(mk)
  /\ rootObjects' = rootObjects \ toDelete(mk)
  /\ deleted' = deleted \cup toDelete(mk)

GCCall(op) == [gcOp EXCEPT !.op = op]

InitGC == RBInit /\ SMInit /\ LXInit /\ PSInit /\ U8Init /\ RSInit /\ GCInit

\* the program may call the collector: it has not crashed
Running == gcOp.outcome = "returned"

\* an object gets a reference to another, as MyObject::setChild
\* (example.cpp:24) or List::add (List.h:52) do; the objects are linked
\* before the collector is first called
AddReference(obj, ref) ==
  /\ gcOp.op \in {"init", "addReference"}
  /\ ref \notin references[obj]
  /\ Cardinality(references[obj]) < MaxReferences
  /\ references' = [references EXCEPT ![obj] = @ \cup {ref}]
  /\ gcOp' = GCCall("addReference")
  /\ UNCHANGED <<allObjects, rootObjects, marked, deleted>>
  /\ UNCHANGED notGC

\* GC::registerObject, GC.cpp:20-24
registerObject(obj) ==
  /\ Running
  /\ obj \notin deleted
  /\ allObjects' = allObjects \cup {obj}
  /\ gcOp' = GCCall("registerObject")
  /\ UNCHANGED <<rootObjects, marked, references, deleted>>
  /\ UNCHANGED notGC

\* GC::addRootObject, GC.cpp:33-37
addRootObject(obj) ==
  /\ Running
  /\ obj \notin deleted
  /\ rootObjects' = rootObjects \cup {obj}
  /\ gcOp' = GCCall("addRootObject")
  /\ UNCHANGED <<allObjects, marked, references, deleted>>
  /\ UNCHANGED notGC

\* GC::removeRootObject, GC.cpp:39-43
removeRootObject(obj) ==
  /\ Running
  /\ obj \notin deleted
  /\ rootObjects' = rootObjects \ {obj}
  /\ gcOp' = GCCall("removeRootObject")
  /\ UNCHANGED <<allObjects, marked, references, deleted>>
  /\ UNCHANGED notGC

\* GC::collectGarbage, GC.cpp:73-83: mark(), then sweep().  When mark() is
\* called on a deleted object the behaviour is undefined: the call crashes,
\* or it reads the freed object as it was left.
collectGarbage ==
  /\ Running
  /\ gcOp.collections < MaxCollections
  /\ \E mk \in {mark} :
       \/ /\ sweep(mk)
          /\ gcOp' = [op |-> "collectGarbage", outcome |-> "returned",
                      collections |-> gcOp.collections + 1]
          /\ UNCHANGED references
       \/ /\ MarkCalledOn(mk) \cap deleted # {}
          /\ gcOp' = [op |-> "collectGarbage", outcome |-> "crashed",
                      collections |-> gcOp.collections + 1]
          /\ UNCHANGED <<allObjects, rootObjects, marked, references, deleted>>
  /\ UNCHANGED notGC

NextGC ==
  \/ \E obj \in Objects, ref \in Objects : AddReference(obj, ref)
  \/ \E obj \in Objects : registerObject(obj)
  \/ \E obj \in Objects : addRootObject(obj)
  \/ \E obj \in Objects : removeRootObject(obj)
  \/ collectGarbage

SpecGC == InitGC /\ [][NextGC]_vars

\* is_unicode_whitespace, Utf8Utils.h:261-265: space, tab, line feed,
\* carriage return
is_unicode_whitespace(codepoint) == codepoint \in {32, 9, 10, 13}

\* Utf8Utils::is_identifier_start, Utf8Utils.h:267-273: a-z, A-Z, _
utf8_is_identifier_start(codepoint) ==
  codepoint \in 97..122 \/ codepoint \in 65..90 \/ codepoint = 95

\* Utf8Utils::is_identifier_part, Utf8Utils.h:275-281
utf8_is_identifier_part(codepoint) ==
  utf8_is_identifier_start(codepoint) \/ codepoint \in 48..57
    \/ utf8_is_identifier_start(codepoint)

\* isdigit on an unsigned char, Lexer.h:313
isdigit(b) == b \in 48..57

(***************************************************************************)
(* ExtensibleLexer and its matchers, Lexer/Lexer.h.                        *)
(***************************************************************************)
\* enum class Utf8Error : uint8_t, Utf8Utils.h:10-17, as the value a token
\* carries
Utf8ErrorCode(e) ==
  CASE e = "InvalidPosition" -> 0
    [] e = "IncompleteSequence" -> 1
    [] e = "InvalidContinuation" -> 2
    [] e = "OverlongEncoding" -> 3
    [] e = "InvalidCodePoint" -> 4
    [] e = "InvalidLeadingByte" -> 5

\* struct Token: type, value, line, column
Token(type, value, l, c) == [type |-> type, value |-> value, line |-> l, column |-> c]

\* what a matcher leaves behind: the token if it matched (<<>> for
\* std::nullopt) and pos, line, column, which it takes by reference
Matched(tok, p, l, c) == [tok |-> tok, pos |-> p, line |-> l, column |-> c]

\* the loops `while (pos < input.size() && isdigit(input[pos])) pos++`,
\* Lexer.h:315-319,331-335: the position they stop at
RECURSIVE DigitsEnd(_, _)
DigitsEnd(input, p) ==
  IF p < Len(input) /\ isdigit(At(input, p)) THEN DigitsEnd(input, p + 1) ELSE p

\* std::stoll of a run of digits (runs here stay far below 19 digits)
RECURSIVE StoLL(_, _, _)
StoLL(digits, i, acc) ==
  IF i > Len(digits) THEN acc ELSE StoLL(digits, i + 1, acc * 10 + (digits[i] - 48))

\* the loop of string_matcher, Lexer.h:267-295, from the byte after the
\* opening quote: the token carries the line the closing quote is on and the
\* column of the opening quote
RECURSIVE StringScan(_, _, _, _, _, _, _)
StringScan(input, p, l, c, escaped, start_pos, start_col) ==
  IF p >= Len(input) THEN Matched(<<>>, p, l, c)
  ELSE IF escaped THEN StringScan(input, p + 1, l, c + 1, FALSE, start_pos, start_col)
  ELSE IF At(input, p) = 34
       THEN Matched(<<Token("String", SubSeq(input, start_pos + 2, p), l, start_col)>>,
                    p + 1, l, c + 1)
  ELSE IF At(input, p) = 10
       THEN StringScan(input, p + 1, l + 1, 1, At(input, p) = 92, start_pos, start_col)
       ELSE StringScan(input, p + 1, l, c + 1, At(input, p) = 92, start_pos, start_col)

\* string_matcher, Lexer.h:253-300
string_matcher(input, p, l, c) ==
  IF p >= Len(input) \/ At(input, p) # 34 THEN Matched(<<>>, p, l, c)
  ELSE StringScan(input, p + 1, l, c + 1, FALSE, p, c)

\* std::stod of digits, '.', digits (Lexer.h:351): the double a + b / 10^n as
\* <<a, b, n>>, a the digits before the dot, b the n digits after it
StoD(num_str, dot) ==
  <<StoLL(SubSeq(num_str, 1, dot - 1), 1, 0),
    StoLL(SubSeq(num_str, dot + 1, Len(num_str)), 1, 0),
    Len(num_str) - dot>>

\* number_matcher, Lexer.h:303-365
number_matcher(input, p, l, c) ==
  LET p1 == DigitsEnd(input, p)
      c1 == c + (p1 - p)
      has_digits_before_dot == p1 > p
      at_dot == p1 < Len(input) /\ At(input, p1) = 46
      has_dot == at_dot /\ p1 + 1 < Len(input) /\ isdigit(At(input, p1 + 1))
      p2 == IF has_dot THEN DigitsEnd(input, p1 + 1) ELSE p1
      c2 == c1 + (p2 - p1)
      num_str == SubSeq(input, p + 1, p2)
  IN IF at_dot /\ ~has_dot THEN Matched(<<>>, p1, l, c1)
     ELSE IF p2 = p \/ (has_dot /\ ~has_digits_before_dot /\ p2 = p + 1)
          THEN Matched(<<>>, p2, l, c2)
     ELSE IF has_dot THEN Matched(<<Token("Float", StoD(num_str, p1 - p + 1), l, c)>>, p2, l, c2)
     ELSE Matched(<<Token("Integer", <<StoLL(num_str, 1, 0)>>, l, c)>>, p2, l, c2)

\* operator3_matcher, operator2_matcher, operator1_matcher, Lexer.h:368-440:
\* the n bytes at pos are the operator
operator_matcher(type, oprt, input, p, l, c) ==
  LET n == Len(oprt) IN
    IF p + n > Len(input) THEN Matched(<<>>, p, l, c)
    ELSE IF SubSeq(input, p + 1, p + n) # oprt THEN Matched(<<>>, p, l, c)
    ELSE Matched(<<Token(type, oprt, l, c)>>, p + n, l, c + n)

\* the loop of identifier_matcher, Lexer.h:461-469: <<pos, column>> it stops at
RECURSIVE IdentifierEnd(_, _, _)
IdentifierEnd(input, p, c) ==
  IF p >= Len(input) THEN <<p, c>>
  ELSE LET next_code_point == get_utf8_codepoint(input, p) IN
    IF ~next_code_point.ok \/ ~utf8_is_identifier_part(next_code_point.val[1])
    THEN <<p, c>>
    ELSE IdentifierEnd(input, p + next_code_point.val[2], c + 1)

\* identifier_matcher, Lexer.h:443-478
identifier_matcher(input, p, l, c) ==
  LET first_code_point == get_utf8_codepoint(input, p) IN
    IF ~first_code_point.ok \/ ~utf8_is_identifier_start(first_code_point.val[1])
    THEN Matched(<<>>, p, l, c)
    ELSE LET e == IdentifierEnd(input, p + first_code_point.val[2], c + 1) IN
      Matched(<<Token("Identifier", SubSeq(input, p + 1, e[1]), l, c)>>, e[1], l, e[2])

\* one registered matcher called, Lexer.h:101
ApplyMatcher(mt, input, p, l, c) ==
  CASE mt.kind = "string" -> string_matcher(input, p, l, c)
    [] mt.kind = "number" -> number_matcher(input, p, l, c)
    [] mt.kind = "identifier" -> identifier_matcher(input, p, l, c)
    [] OTHER -> operator_matcher(mt.kind, mt.oprt, input, p, l, c)

\* register_default_matchers, Lexer.h:546-589, in registration order.  The
\* matchers left out (comments, true/false/null, the keywords, the other
\* operators) return std::nullopt and change nothing unless the byte at
\* pos is one that none of LexBytes, StrBytes and Doc holds.
DefaultMatchers ==
  << [kind |-> "string", oprt |-> <<>>],
     [kind |-> "number", oprt |-> <<>>],
     [kind |-> "Operator3", oprt |-> <<61, 61, 61>>],
     [kind |-> "Operator2", oprt |-> <<61, 61>>],
     [kind |-> "Operator1", oprt |-> <<46>>],
     [kind |-> "Operator1", oprt |-> <<61>>],
     [kind |-> "identifier", oprt |-> <<>>] >>

\* skip_whitespace, Lexer.h:48-68, with decode_utf8's writes of
\* last_utf8_error, Lexer.h:36-45
RECURSIVE skip_whitespace(_, _, _, _, _)
skip_whitespace(buf, p, l, c, err) ==
  IF p >= Len(buf) THEN [pos |-> p, line |-> l, column |-> c, err |-> err]
  ELSE LET d == get_utf8_codepoint(buf, p) IN
    IF ~d.ok THEN [pos |-> p, line |-> l, column |-> c, err |-> d.err]
    ELSE IF is_unicode_whitespace(d.val[1])
         THEN IF d.val[1] = 10
              THEN skip_whitespace(buf, p + d.val[2], l + 1, 1, "nullopt")
              ELSE skip_whitespace(buf, p + d.val[2], l, c + 1, "nullopt")
         ELSE [pos |-> p, line |-> l, column |-> c, err |-> "nullopt"]

\* shrink_buffer, Lexer.h:71-76: the number of bytes cut off the front
shrink_bufferCutsOneMore(buf, p) ==
  IF p > Len(buf) \div 2 THEN (IF p < Len(buf) THEN p + 1 ELSE p) ELSE 0

shrink_buffer(buf, p) == IF p > Len(buf) \div 2 THEN p ELSE 0

\* pos++ past the byte that does not decode, Lexer.h:116
SkipErrorWholeSequence(p) == p + 2

SkipErrorByte(p) == p + 1

\* the loop over the matchers, Lexer.h:99-105: pos is put back after a matcher
\* that did not match, line and column are not
RECURSIVE TryMatchers(_, _, _, _, _, _)
TryMatchers(ms, i, input, p, l, c) ==
  IF i > Len(ms) THEN Matched(<<>>, p, l, c)
  ELSE LET r == ApplyMatcher(ms[i], input, p, l, c) IN
    IF r.tok # <<>> THEN r ELSE TryMatchers(ms, i + 1, input, p, r.line, r.column)

\* what next_token leaves and returns: the lexer's fields afterwards, what is
\* returned (<<>> for std::nullopt), and for the history the number of bytes
\* skipped as whitespace, the number cut off by shrink_buffer and the position
\* the token starts at
Out(buf, np, nl, nc, ne, ret, skipped, cut, start) ==
  [buffer |-> buf, pos |-> np, line |-> nl, column |-> nc,
   last_utf8_error |-> ne, ret |-> ret,
   skipped |-> skipped, cut |-> cut, start |-> start]

\* next_token when no matcher matched, Lexer.h:107-131: d is what decode_utf8
\* found at pos, l and c are line and column as the matchers left them
NoMatch(buf, p, l, c, d, skipped, cut) ==
  IF ~d.ok
  THEN Out(buf, SkipErrorByte(p), l, c + 1, d.err,
           <<Token("Utf8Error", <<Utf8ErrorCode(d.err)>>, l, c)>>, skipped, cut, p)
  ELSE Out(buf, p + d.val[2], l, c + 1, "nullopt",
           <<Token("InvalidToken", SubSeq(buf, p + 1, p + d.val[2]), l, c)>>,
           skipped, cut, p)

\* next_token after the matcher loop, Lexer.h:99-131: r is what the loop left
AfterMatchers(buf, p, err, r, skipped, cut) ==
  IF r.tok # <<>> THEN Out(buf, r.pos, r.line, r.column, err, r.tok, skipped, cut, p)
  ELSE NoMatch(buf, p, r.line, r.column, get_utf8_codepoint(buf, p), skipped, cut)

\* next_token after shrink_buffer, Lexer.h:94-131
AfterShrink(buf, p, l, c, err, ms, skipped, cut) ==
  IF p >= Len(buf) THEN Out(buf, p, l, c, err, <<>>, skipped, cut, p)
  ELSE AfterMatchers(buf, p, err, TryMatchers(ms, 1, buf, p, l, c), skipped, cut)

\* next_token after skip_whitespace, Lexer.h:92-131: sw is where
\* skip_whitespace left the lexer, cut the number of bytes shrink_buffer cuts
AfterSkip(buf, p, sw, ms, cut) ==
  AfterShrink(SubSeq(buf, cut + 1, Len(buf)), IF cut > 0 THEN 0 ELSE sw.pos,
              sw.line, sw.column, sw.err, ms, sw.pos - p, cut)

\* next_token, Lexer.h:90-132, as a function of the lexer's fields
next_token(buf, p, l, c, err, ms) ==
  AfterSkip(buf, p, skip_whitespace(buf, p, l, c, err), ms,
            shrink_buffer(buf, skip_whitespace(buf, p, l, c, err).pos))

\* bound: the number of bytes given to the lexer
MaxInput == 3

\* the bytes fed: a, 1, space, line feed, =, '.', and E4, BD (a three-byte leading
\* byte and a continuation byte)
LexBytes == {97, 49, 32, 10, 61, 46, 228, 189}

\* register_default_matchers(lexer) on the fresh lexer, Lexer.h:85-87,546-589
RegisterDefaultMatchers ==
  /\ lxOp.op = "init"
  /\ matchers' = DefaultMatchers
  /\ lxOp' = [op |-> "register", ret |-> <<>>]
  /\ UNCHANGED <<buffer, pos, line, column, last_utf8_error,
                 lx_input, lx_feeds, lx_dropped, lx_skipped, tokens>>
  /\ UNCHANGED notLX

\* feed, Lexer.h:82
Feed(data) ==
  /\ buffer' = buffer \o data
  /\ lx_input' = lx_input \o data
  /\ lx_feeds' = lx_feeds + 1
  /\ lxOp' = [op |-> "feed", ret |-> <<>>]
  /\ UNCHANGED <<pos, line, column, matchers, last_utf8_error,
                 lx_dropped, lx_skipped, tokens>>
  /\ UNCHANGED notLX

\* a call of next_token, Lexer.h:90-132
NextToken ==
  \E r \in {next_token(buffer, pos, line, column, last_utf8_error, matchers)} :
     /\ buffer' = r.buffer
     /\ pos' = r.pos
     /\ line' = r.line
     /\ column' = r.column
     /\ last_utf8_error' = r.last_utf8_error
     /\ lx_dropped' = lx_dropped + r.cut
     /\ lx_skipped' = lx_skipped \cup
                         ((lx_dropped + pos)..(lx_dropped + pos + r.skipped - 1))
     /\ tokens' = IF r.ret = <<>> THEN tokens
                  ELSE Append(tokens, [tok |-> r.ret[1],
                                       from |-> lx_dropped + r.cut + r.start,
                                       to |-> lx_dropped + r.cut + r.pos])
     /\ lxOp' = [op |-> "next_token", ret |-> r.ret]
     /\ UNCHANGED <<matchers, lx_input, lx_feeds>>
     /\ UNCHANGED notLX

\* one more byte arrives
FeedByte(b) == Len(lx_input) < MaxInput /\ Feed(<<b>>)

InitLex == RBInit /\ SMInit /\ LXInit /\ PSInit /\ U8Init /\ RSInit /\ GCInit

NextLex ==
  \/ RegisterDefaultMatchers
  \/ \E b \in LexBytes : FeedByte(b)
  \/ NextToken

SpecLex == InitLex /\ [][NextLex]_vars

\* bound: the number of bytes given to the lexer in one call of feed
MaxChunk == 2

\* next_token has returned std::nullopt and nothing was fed since
Drained == lxOp.op = "next_token" /\ lxOp.ret = <<>>

\* feed(data) with some bytes, called on the lexer before its first
\* next_token or after next_token has returned std::nullopt
FeedChunk ==
  /\ lxOp.op = "register" \/ Drained
  /\ \E n \in 1..MaxChunk :
       /\ Len(lx_input) + n <= MaxInput
       /\ \E data \in [1..n -> LexBytes] : Feed(data)

\* next_token, called until it returns std::nullopt
NextTokenUntilNone == ~Drained /\ lxOp.op \in {"feed", "next_token"} /\ NextToken

NextLexSplit == RegisterDefaultMatchers \/ FeedChunk \/ NextTokenUntilNone

SpecLexSplit == InitLex /\ [][NextLexSplit]_vars

\* bound: the number of bytes given to the lexer in SpecLexStr
MaxStrInput == 5

\* the bytes fed in SpecLexStr: '"', line feed, =
StrBytes == {34, 10, 61}

\* one more byte of a text with string literals arrives
FeedStrByte(b) == Len(lx_input) < MaxStrInput /\ Feed(<<b>>)

NextLexStr ==
  \/ RegisterDefaultMatchers
  \/ \E b \in StrBytes : FeedStrByte(b)
  \/ NextToken

SpecLexStr == InitLex /\ [][NextLexStr]_vars

\* the bytes of the text "你好 = 1": E4 BD A0, E5 A5 BD, space, =, space, 1
Doc == <<228, 189, 160, 229, 165, 189, 32, 61, 32, 49>>

\* the next n bytes of Doc arrive in one feed() call
FeedDoc(n) ==
  /\ Len(lx_input) + n <= Len(Doc)
  /\ Feed(SubSeq(Doc, Len(lx_input) + 1, Len(lx_input) + n))

NextLexDoc ==
  \/ RegisterDefaultMatchers
  \/ \E n \in 1..Len(Doc) : FeedDoc(n)
  \/ NextToken

SpecLexDoc == InitLex /\ [][NextLexDoc]_vars

(***************************************************************************)
(* Parser::Parser, lexer/src/Parser/Parser.cpp.  The parser reads its      *)
(* tokens one by one from its lexer; toks is the sequence of the types of  *)
(* the tokens the lexer hands over, and the text of the token at index i   *)
(* is written i (an integer literal i has the value i, an identifier i the *)
(* name i).  Every parse function takes the parser where it is: pos, the   *)
(* index in toks of current_token (past the end when current_token is      *)
(* nullopt), and ev, the listener callbacks made so far.  It returns the   *)
(* same with a tag and a value: "Ok" with the node built, "Err" with the   *)
(* error, or "Unwrap" when unwrap() was called on an Err (Result.h:166-    *)
(* 172: assert(is_ok()), then a read through the null pointer get_if       *)
(* returns).                                                               *)
(***************************************************************************)

\* enum class Error, Error.h:6-20, as the value of an Err
ErrNode(e) == Node("Error", e, 0, <<>>, 0)

OkR(node, s) == [tag |-> "Ok", val |-> node, pos |-> s.pos, ev |-> s.ev]
ErrR(e, s) == [tag |-> "Err", val |-> ErrNode(e), pos |-> s.pos, ev |-> s.ev]

\* consume(), Parser.h:42 in the header of the parser
consume(s) == [s EXCEPT !.pos = @ + 1]

\* current_token.has_value()
has_value(toks, s) == s.pos <= Len(toks)

\* check(type)
check(toks, s, type) == has_value(toks, s) /\ toks[s.pos] = type

\* enter_statement(), exit_statement(stmt), enter_expr(), exit_expr(expr):
\* the callback reaches every bound listener; at is the number of tokens
\* consumed before it
Fire(s, cb, node) ==
  [s EXCEPT !.ev = Append(@, [cb |-> cb, at |-> s.pos - 1, node |-> node])]

\* enter_expr(); the node is created; exit_expr(expr); return Ok(expr)
ExprNode(node, s) ==
  OkR(node, Fire(Fire(s, "enter_expr", NoNode), "exit_expr", node))

\* get_precedence, Utils.h:5-52
get_precedence(op) ==
  CASE op = "Equal" -> 50
    [] op = "Or" -> 60
    [] op = "Pipe" -> 70
    [] op = "And" -> 80
    [] op \in {"DoubleEqual", "ExclamationEqual", "GreaterThan", "LessThan",
               "GreaterThanEqual", "LessThanEqual"} -> 100
    [] op \in {"Plus", "Minus"} -> 200
    [] op \in {"Asterisk", "Slash"} -> 300
    [] op = "Dot" -> 400
    [] op = "Not" -> 450
    [] OTHER -> 0

\* get_associativity, Utils.h:54-56
get_associativity(op) == TRUE

next_precedenceLower(op) == get_precedence(op) - 1

\* next_precedence, Parser.cpp:147-148
next_precedence(op) ==
  IF get_associativity(op) THEN get_precedence(op) ELSE get_precedence(op) - 1

RECURSIVE parse_expression(_, _, _), ExprLoop(_, _, _), ExprFold(_, _, _, _, _),
          parse_unary(_, _), parse_primary(_, _), parse_postfix(_, _),
          parse_function_call(_, _), CallArgs(_, _, _, _), CallArg(_, _, _, _),
          parse_parenthesized(_, _), parse_lambda(_, _), LambdaParams(_, _, _, _),
          parse_statement(_, _), parse_block(_, _), BlockLoop(_, _, _, _),
          BlockStmt(_, _, _, _), parse_var_declaration(_, _)

\* parse_int, Parser.cpp:192-205
parse_int(toks, s) == ExprNode(Node("LiteralInt", "", s.pos, <<>>, s.pos), consume(s))

\* parse_identifier_expression, Parser.cpp:207-217
parse_identifier_expression(toks, s) ==
  ExprNode(Node("VarRef", "", s.pos, <<>>, s.pos), consume(s))

\* parse_string, Parser.cpp:219-229: enter_expr() comes before consume()
parse_string(toks, s) ==
  OkR(Node("LiteralString", "", s.pos, <<>>, s.pos),
      Fire(consume(Fire(s, "enter_expr", NoNode)), "exit_expr",
           Node("LiteralString", "", s.pos, <<>>, s.pos)))

\* the loop of parse_expression, Parser.cpp:130-164: left is the result that
\* holds the left operand built so far
ExprLoop(toks, left, precedence) ==
  IF ~has_value(toks, left) THEN left
  ELSE IF get_precedence(toks[left.pos]) <= precedence THEN left
  ELSE ExprFold(toks, left.val, toks[left.pos],
                parse_expression(toks, consume(left), next_precedence(toks[left.pos])),
                precedence)

\* Parser.cpp:149-162: the right operand is parsed, the Binary node is built
ExprFold(toks, left, op, right, precedence) ==
  IF right.tag # "Ok" THEN right
  ELSE ExprLoop(toks, ExprNode(Node("Binary", op, 0, <<left, right.val>>, left.from), right),
                precedence)

\* Parser.cpp:123-127: the left operand of parse_expression
ExprStart(toks, left, precedence) ==
  IF left.tag # "Ok" THEN left ELSE ExprLoop(toks, left, precedence)

\* parse_expression, Parser.cpp:120-165
parse_expression(toks, s, precedence) ==
  ExprStart(toks, parse_unary(toks, s), precedence)

\* Parser.cpp:173-186: the Unary node around the operand
UnaryNode(op, from, operand) ==
  IF operand.tag # "Ok" THEN operand
  ELSE ExprNode(Node("Unary", op, 0, <<operand.val>>, from), operand)

\* parse_unary, Parser.cpp:167-190
parse_unary(toks, s) ==
  IF check(toks, s, "Plus") \/ check(toks, s, "Minus")
  THEN UnaryNode(toks[s.pos], s.pos, parse_unary(toks, consume(s)))
  ELSE parse_primary(toks, s)

\* Parser.cpp:328-342: after the expression inside the parentheses
GroupingNode(toks, from, r) ==
  IF r.tag # "Ok" THEN r
  ELSE IF ~check(toks, r, "RightParenthesis") THEN ErrR("MissingRightParen", r)
  ELSE ExprNode(Node("Grouping", "", 0, <<r.val>>, from), consume(r))

\* parse_parenthesized, Parser.cpp:322-343
parse_parenthesized(toks, s) ==
  GroupingNode(toks, s.pos, parse_expression(toks, consume(s), 0))

\* a parameter name of a lambda, Expr.h:56
Param(i) == Node("Param", "", i, <<>>, i)

\* Parser.cpp:271-285: the Lambda node around its body
LambdaNode(params, from, body) ==
  IF body.tag # "Ok" THEN body
  ELSE ExprNode(Node("Lambda", "", 0, <<body.val>> \o params, from), body)

\* Parser.cpp:262-271: the closing | and the body
LambdaBody(toks, params, from, s) ==
  IF ~check(toks, s, "Pipe") THEN ErrR("ExpectedPipe", s)
  ELSE IF ~check(toks, consume(s), "LeftCurlyBrace")
       THEN ErrR("ExpectedLeftBraceInLambdaBody", consume(s))
  ELSE LambdaNode(params, from, parse_block(toks, consume(s)))

\* the parameter loop of parse_lambda, Parser.cpp:243-259
LambdaParams(toks, params, from, s) ==
  IF ~check(toks, s, "Identifier") THEN ErrR("ExpectedIdentifierInLambdaParams", s)
  ELSE IF check(toks, consume(s), "Comma")
       THEN LambdaParams(toks, Append(params, Param(s.pos)), from, consume(consume(s)))
  ELSE IF check(toks, consume(s), "Pipe")
       THEN LambdaBody(toks, Append(params, Param(s.pos)), from, consume(s))
  ELSE ErrR("ExpectedCommaOrPipeInLambda", consume(s))

\* parse_lambda, Parser.cpp:232-286
parse_lambda(toks, s) ==
  IF ~check(toks, s, "Pipe") THEN ErrR("ExpectedPipe", s)
  ELSE IF check(toks, consume(s), "Pipe") THEN LambdaBody(toks, <<>>, s.pos, consume(s))
  ELSE LambdaParams(toks, <<>>, s.pos, consume(s))

\* parse_primary_base, Parser.cpp:288-308
parse_primary_base(toks, s) ==
  IF ~has_value(toks, s) THEN ErrR("UnexpectedEndOfInput", s)
  ELSE CASE toks[s.pos] = "Literal_Integer" -> parse_int(toks, s)
         [] toks[s.pos] = "Literal_String" -> parse_string(toks, s)
         [] toks[s.pos] = "LeftParenthesis" -> parse_parenthesized(toks, s)
         [] toks[s.pos] = "Identifier" -> parse_identifier_expression(toks, s)
         [] toks[s.pos] = "Pipe" -> parse_lambda(toks, s)
         [] OTHER -> ErrR("UnexpectedToken", s)

\* Parser.cpp:313-319: the postfix operators after the base expression
PrimaryPostfix(toks, base_expr) ==
  IF base_expr.tag # "Ok" THEN base_expr ELSE parse_postfix(toks, base_expr)

\* parse_primary, Parser.cpp:310-320
parse_primary(toks, s) == PrimaryPostfix(toks, parse_primary_base(toks, s))

\* Parser.cpp:408: expr = parse_function_call(expr).unwrap()
UnwrapCall(toks, r) ==
  IF r.tag = "Ok" THEN parse_postfix(toks, r) ELSE [r EXCEPT !.tag = "Unwrap"]

\* parse_postfix, Parser.cpp:386-416: expr is the result that holds the
\* expression built so far
parse_postfix(toks, expr) ==
  IF check(toks, expr, "Dot")
  THEN IF ~check(toks, consume(expr), "Identifier")
       THEN ErrR("ExpectedIdentifierAfterDot", consume(expr))
       ELSE parse_postfix(toks,
              ExprNode(Node("MemberAccess", "", expr.pos + 1, <<expr.val>>, expr.val.from),
                       consume(consume(expr))))
  ELSE IF check(toks, expr, "LeftParenthesis")
       THEN UnwrapCall(toks, parse_function_call(toks, expr))
  ELSE expr

\* Parser.cpp:370-383: the closing parenthesis and the FunctionCall node
CallClose(toks, function_expr, arguments, s) ==
  IF ~check(toks, s, "RightParenthesis") THEN ErrR("MissingRightParen", s)
  ELSE ExprNode(Node("FunctionCall", "", 0, <<function_expr>> \o arguments,
                     function_expr.from),
                consume(s))

\* Parser.cpp:356-366: one argument was parsed
CallArg(toks, function_expr, arguments, arg_result) ==
  IF arg_result.tag # "Ok" THEN arg_result
  ELSE IF check(toks, arg_result, "Comma")
       THEN CallArgs(toks, function_expr, Append(arguments, arg_result.val),
                     consume(arg_result))
  ELSE CallClose(toks, function_expr, Append(arguments, arg_result.val), arg_result)

\* the argument loop of parse_function_call, Parser.cpp:354-367
CallArgs(toks, function_expr, arguments, s) ==
  CallArg(toks, function_expr, arguments, parse_expression(toks, s, 0))

\* parse_function_call, Parser.cpp:345-384
parse_function_call(toks, expr) ==
  IF check(toks, consume(expr), "RightParenthesis")
  THEN CallClose(toks, expr.val, <<>>, consume(expr))
  ELSE CallArgs(toks, expr.val, <<>>, consume(expr))

\* Parser.cpp:437-452: after the initializer of a variable declaration
VarDeclNode(toks, name, from, r) ==
  IF r.tag # "Ok" THEN r
  ELSE IF ~check(toks, r, "Semicolon") THEN ErrR("UnexpectedToken", r)
  ELSE OkR(Node("VarDecl", "", name, <<r.val>>, from), consume(r))

\* parse_var_declaration, Parser.cpp:418-453
parse_var_declaration(toks, s) ==
  IF ~check(toks, consume(s), "Identifier") THEN ErrR("UnexpectedToken", consume(s))
  ELSE IF ~check(toks, consume(consume(s)), "Equal")
       THEN ErrR("UnexpectedToken", consume(consume(s)))
  ELSE VarDeclNode(toks, s.pos + 1, s.pos,
                   parse_expression(toks, consume(consume(consume(s))), 0))

\* Parser.cpp:44-49,55-60: exit_statement for a block or a declaration
StmtExit(r) ==
  IF r.tag # "Ok" THEN r ELSE OkR(r.val, Fire(r, "exit_statement", r.val))

\* Parser.cpp:70-76: the expression statement, returned without exit_statement
ExprStmt(from, r) ==
  IF r.tag # "Ok" THEN r ELSE OkR(Node("ExprStmt", "", 0, <<r.val>>, from), r)

\* Parser.cpp:40-76: parse_statement after enter_statement()
StatementBody(toks, s) ==
  IF check(toks, s, "LeftCurlyBrace") THEN StmtExit(parse_block(toks, s))
  ELSE IF check(toks, s, "Var") THEN StmtExit(parse_var_declaration(toks, s))
  ELSE IF check(toks, s, "Semicolon")
       THEN OkR(Node("Empty", "", 0, <<>>, s.pos), consume(s))
  ELSE ExprStmt(s.pos, parse_expression(toks, s, 0))

\* parse_statement, Parser.cpp:38-77
parse_statement(toks, s) == StatementBody(toks, Fire(s, "enter_statement", NoNode))

\* match(TokenType::Semicolon) after a statement, Parser.cpp:32,104
MatchSemicolon(toks, s) == IF check(toks, s, "Semicolon") THEN consume(s) ELSE s

\* Parser.cpp:96-104: one statement of the block was parsed
BlockStmt(toks, statements, from, stmt_result) ==
  IF stmt_result.tag # "Ok" THEN stmt_result
  ELSE BlockLoop(toks, Append(statements, stmt_result.val), from,
                 MatchSemicolon(toks, stmt_result))

\* the loop of parse_block and the closing brace, Parser.cpp:90-117
BlockLoop(toks, statements, from, s) ==
  IF has_value(toks, s) /\ ~check(toks, s, "RightCurlyBrace")
  THEN IF check(toks, s, "Semicolon") THEN BlockLoop(toks, statements, from, consume(s))
       ELSE BlockStmt(toks, statements, from, parse_statement(toks, s))
  ELSE IF ~check(toks, s, "RightCurlyBrace") THEN ErrR("UnexpectedToken", s)
  ELSE OkR(Node("Block", "", 0, statements, from), consume(s))

\* parse_block, Parser.cpp:79-118
parse_block(toks, s) ==
  IF ~check(toks, s, "LeftCurlyBrace") THEN ErrR("UnexpectedToken", s)
  ELSE BlockLoop(toks, <<>>, s.pos, consume(s))

RECURSIVE ModuleLoop(_, _, _), ModuleStmt(_, _, _)

\* Parser.cpp:24-32: one statement of the module was parsed
ModuleStmt(toks, statements, stmt_result) ==
  IF stmt_result.tag # "Ok" THEN stmt_result
  ELSE ModuleLoop(toks, Append(statements, stmt_result.val),
                  MatchSemicolon(toks, stmt_result))

\* the loop of parse_module, Parser.cpp:18-35
ModuleLoop(toks, statements, s) ==
  IF ~has_value(toks, s) THEN OkR(Node("Module", "", 0, statements, 1), s)
  ELSE IF check(toks, s, "Semicolon") THEN ModuleLoop(toks, statements, consume(s))
  ELSE ModuleStmt(toks, statements, parse_statement(toks, s))

\* parse_module, Parser.cpp:14-36, in a parser whose constructor has read the
\* first token (Parser.h:26-29)
parse_module(toks) == ModuleLoop(toks, <<>>, [pos |-> 1, ev |-> <<>>])

\* parse, Parser.cpp:10-12
parse(toks) == parse_module(toks)

(***************************************************************************)
(* Parser::Kaubo::Parser, lexer/src/Parser/Kaubo/Parser.cpp: the same      *)
(* recursive descent over Lexer::Kaubo::TokenType, with its own precedence *)
(* table, function calls by name only, and no listeners.                   *)
(***************************************************************************)

\* Parser::get_precedence, Kaubo/Parser.cpp:37-62
kaubo_get_precedence(op) ==
  CASE op = "Equals" -> 5
    [] op \in {"EqualEqual", "NotEqual", "Greater", "Less", "GreaterEqual",
               "LessEqual"} -> 15
    [] op \in {"Plus", "Minus"} -> 10
    [] op \in {"Multiply", "Divide"} -> 20
    [] OTHER -> 0

\* Parser::get_associativity, Kaubo/Parser.cpp:64-67
kaubo_get_associativity(op) == TRUE

\* next_precedence, Kaubo/Parser.cpp:203-204
kaubo_next_precedence(op) ==
  IF kaubo_get_associativity(op) THEN kaubo_get_precedence(op)
  ELSE kaubo_get_precedence(op) - 1

RECURSIVE kaubo_parse_expression(_, _, _), KauboExprLoop(_, _, _),
          KauboExprFold(_, _, _, _, _), kaubo_parse_unary(_, _),
          kaubo_parse_primary(_, _), kaubo_parse_function_call(_, _, _),
          KauboCallArgs(_, _, _, _), KauboCallArg(_, _, _, _),
          kaubo_parse_statement(_, _), kaubo_parse_block(_, _),
          KauboBlockLoop(_, _, _, _), KauboBlockStmt(_, _, _, _),
          kaubo_parse_var_declaration(_, _)

\* the loop of parse_expression, Kaubo/Parser.cpp:186-218
KauboExprLoop(toks, left, precedence) ==
  IF ~has_value(toks, left) THEN left
  ELSE IF kaubo_get_precedence(toks[left.pos]) <= precedence THEN left
  ELSE KauboExprFold(toks, left.val, toks[left.pos],
                     kaubo_parse_expression(toks, consume(left),
                                            kaubo_next_precedence(toks[left.pos])),
                     precedence)

\* Kaubo/Parser.cpp:205-217: the right operand is parsed, the BinaryExpr built
KauboExprFold(toks, left, op, right, precedence) ==
  IF right.tag # "Ok" THEN right
  ELSE KauboExprLoop(toks,
         OkR(Node("BinaryExpr", op, 0, <<left, right.val>>, left.from), right),
         precedence)

\* Kaubo/Parser.cpp:179-183: the left operand of parse_expression
KauboExprStart(toks, left, precedence) ==
  IF left.tag # "Ok" THEN left ELSE KauboExprLoop(toks, left, precedence)

\* parse_expression, Kaubo/Parser.cpp:176-221
kaubo_parse_expression(toks, s, precedence) ==
  KauboExprStart(toks, kaubo_parse_unary(toks, s), precedence)

\* Kaubo/Parser.cpp:229-239: the UnaryExpr around the operand
KauboUnaryNode(op, from, operand) ==
  IF operand.tag # "Ok" THEN operand
  ELSE OkR(Node("UnaryExpr", op, 0, <<operand.val>>, from), operand)

\* parse_unary, Kaubo/Parser.cpp:223-243
kaubo_parse_unary(toks, s) ==
  IF check(toks, s, "Plus") \/ check(toks, s, "Minus")
  THEN KauboUnaryNode(toks[s.pos], s.pos, kaubo_parse_unary(toks, consume(s)))
  ELSE kaubo_parse_primary(toks, s)

\* Kaubo/Parser.cpp:265-278: after the expression inside the parentheses
KauboGroupingNode(toks, from, r) ==
  IF r.tag # "Ok" THEN r
  ELSE IF ~check(toks, r, "RightParen") THEN ErrR("MissingRightParen", r)
  ELSE OkR(Node("GroupingExpr", "", 0, <<r.val>>, from), consume(r))

\* parse_primary, Kaubo/Parser.cpp:245-296
kaubo_parse_primary(toks, s) ==
  IF ~has_value(toks, s) THEN ErrR("UnexpectedEndOfInput", s)
  ELSE CASE toks[s.pos] = "Integer" ->
              OkR(Node("IntValue", "", s.pos, <<>>, s.pos), consume(s))
         [] toks[s.pos] = "LeftParen" ->
              KauboGroupingNode(toks, s.pos, kaubo_parse_expression(toks, consume(s), 0))
         [] toks[s.pos] = "Identifier" ->
              IF check(toks, consume(s), "LeftParen")
              THEN kaubo_parse_function_call(toks, s.pos, consume(s))
              ELSE OkR(Node("VarRefExpr", "", s.pos, <<>>, s.pos), consume(s))
         [] OTHER -> ErrR("UnexpectedToken", s)

\* Kaubo/Parser.cpp:325-337: the closing parenthesis, the FunctionCallExpr
KauboCallClose(toks, function_name, arguments, s) ==
  IF ~check(toks, s, "RightParen") THEN ErrR("MissingRightParen", s)
  ELSE OkR(Node("FunctionCallExpr", "", function_name, arguments, function_name),
           consume(s))

\* Kaubo/Parser.cpp:309-321: one argument was parsed
KauboCallArg(toks, function_name, arguments, arg_result) ==
  IF arg_result.tag # "Ok" THEN arg_result
  ELSE IF check(toks, arg_result, "Comma")
       THEN KauboCallArgs(toks, function_name, Append(arguments, arg_result.val),
                          consume(arg_result))
  ELSE KauboCallClose(toks, function_name, Append(arguments, arg_result.val),
                      arg_result)

\* the argument loop of parse_function_call, Kaubo/Parser.cpp:306-322
KauboCallArgs(toks, function_name, arguments, s) ==
  KauboCallArg(toks, function_name, arguments, kaubo_parse_expression(toks, s, 0))

\* parse_function_call, Kaubo/Parser.cpp:298-338
kaubo_parse_function_call(toks, function_name, s) ==
  IF check(toks, consume(s), "RightParen")
  THEN KauboCallClose(toks, function_name, <<>>, consume(s))
  ELSE KauboCallArgs(toks, function_name, <<>>, consume(s))

\* Kaubo/Parser.cpp:357-375: after the initializer of a variable declaration
KauboVarDeclNode(toks, name, from, r) ==
  IF r.tag # "Ok" THEN r
  ELSE IF ~check(toks, r, "Semicolon") THEN ErrR("UnexpectedToken", r)
  ELSE OkR(Node("VarDeclExpr", "", name, <<r.val>>, from), consume(r))

\* parse_var_declaration, Kaubo/Parser.cpp:340-376
kaubo_parse_var_declaration(toks, s) ==
  IF ~check(toks, consume(s), "Identifier") THEN ErrR("UnexpectedToken", consume(s))
  ELSE IF ~check(toks, consume(consume(s)), "Equals")
       THEN ErrR("UnexpectedToken", consume(consume(s)))
  ELSE KauboVarDeclNode(toks, s.pos + 1, s.pos,
         kaubo_parse_expression(toks, consume(consume(consume(s))), 0))

\* Kaubo/Parser.cpp:128-136: the expression statement
KauboExprStmt(from, r) ==
  IF r.tag # "Ok" THEN r ELSE OkR(Node("ExprStmt", "", 0, <<r.val>>, from), r)

\* parse_statement, Kaubo/Parser.cpp:97-137
kaubo_parse_statement(toks, s) ==
  IF check(toks, s, "LeftBrace") THEN kaubo_parse_block(toks, s)
  ELSE IF check(toks, s, "Var") THEN kaubo_parse_var_declaration(toks, s)
  ELSE IF check(toks, s, "Semicolon")
       THEN OkR(Node("EmptyStmt", "", 0, <<>>, s.pos), consume(s))
  ELSE KauboExprStmt(s.pos, kaubo_parse_expression(toks, s, 0))

\* Kaubo/Parser.cpp:155-164: one statement of the block was parsed
KauboBlockStmt(toks, statements, from, stmt_result) ==
  IF stmt_result.tag # "Ok" THEN stmt_result
  ELSE KauboBlockLoop(toks, Append(statements, stmt_result.val), from,
                      MatchSemicolon(toks, stmt_result))

\* the loop of parse_block and the closing brace, Kaubo/Parser.cpp:149-173
KauboBlockLoop(toks, statements, from, s) ==
  IF has_value(toks, s) /\ ~check(toks, s, "RightBrace")
  THEN IF check(toks, s, "Semicolon")
       THEN KauboBlockLoop(toks, statements, from, consume(s))
       ELSE KauboBlockStmt(toks, statements, from, kaubo_parse_statement(toks, s))
  ELSE IF ~check(toks, s, "RightBrace") THEN ErrR("UnexpectedToken", s)
  ELSE OkR(Node("BlockStmt", "", 0, statements, from), consume(s))

\* parse_block, Kaubo/Parser.cpp:139-174
kaubo_parse_block(toks, s) ==
  IF ~check(toks, s, "LeftBrace") THEN ErrR("UnexpectedToken", s)
  ELSE KauboBlockLoop(toks, <<>>, s.pos, consume(s))

RECURSIVE KauboModuleLoop(_, _, _), KauboModuleStmt(_, _, _)

\* Kaubo/Parser.cpp:83-91: one statement of the module was parsed
KauboModuleStmt(toks, statements, stmt_result) ==
  IF stmt_result.tag # "Ok" THEN stmt_result
  ELSE KauboModuleLoop(toks, Append(statements, stmt_result.val),
                       MatchSemicolon(toks, stmt_result))

\* the loop of parse_module, Kaubo/Parser.cpp:77-94
KauboModuleLoop(toks, statements, s) ==
  IF ~has_value(toks, s) THEN OkR(Node("Module", "", 0, statements, 1), s)
  ELSE IF check(toks, s, "Semicolon") THEN KauboModuleLoop(toks, statements, consume(s))
  ELSE KauboModuleStmt(toks, statements, kaubo_parse_statement(toks, s))

\* parse_module, Kaubo/Parser.cpp:73-95
kaubo_parse_module(toks) == KauboModuleLoop(toks, <<>>, [pos |-> 1, ev |-> <<>>])

\* parse, Kaubo/Parser.cpp:69-71
kaubo_parse(toks) == kaubo_parse_module(toks)

(***************************************************************************)
(* The two front ends at work.  ps_source is the source text as the        *)
(* sequence of its lexemes, an integer literal written "1", an identifier  *)
(* "a" and a string literal "s"; each front end reads it as the tokens of  *)
(* its own TokenType.                                                      *)
(***************************************************************************)

\* the token type of a lexeme in Lexer::TokenType: the keyword and operator
\* tables of Lexer/Builder.cpp:11-64 ("!" alone is in none of them)
TokenTypeOf(text) ==
  CASE text = "1" -> "Literal_Integer"
    [] text = "s" -> "Literal_String"
    [] text = "a" -> "Identifier"
    [] text = "var" -> "Var"
    [] text = "not" -> "Not"
    [] text = "<" -> "LessThan"
    [] text = "+" -> "Plus"
    [] text = "-" -> "Minus"
    [] text = "*" -> "Asterisk"
    [] text = "=" -> "Equal"
    [] text = "," -> "Comma"
    [] text = ";" -> "Semicolon"
    [] text = "(" -> "LeftParenthesis"
    [] text = ")" -> "RightParenthesis"
    [] text = "{" -> "LeftCurlyBrace"
    [] text = "}" -> "RightCurlyBrace"
    [] text = "." -> "Dot"
    [] text = "|" -> "Pipe"
    [] OTHER -> "Utf8Error"

\* the token type of a lexeme in Lexer::Kaubo::TokenType, as
\* Parser::Kaubo::Parser names it
KauboTokenTypeOf(text) ==
  CASE text = "1" -> "Integer"
    [] text = "a" -> "Identifier"
    [] text = "var" -> "Var"
    [] text = "<" -> "Less"
    [] text = "+" -> "Plus"
    [] text = "-" -> "Minus"
    [] text = "*" -> "Multiply"
    [] text = "=" -> "Equals"
    [] text = "," -> "Comma"
    [] text = ";" -> "Semicolon"
    [] text = "(" -> "LeftParen"
    [] text = ")" -> "RightParen"
    [] text = "{" -> "LeftBrace"
    [] text = "}" -> "RightBrace"
    [] OTHER -> "InvalidToken"

\* the tokens the lexer of the front end hands to its parser
Tokens(fe, source) ==
  [i \in 1..Len(source) |->
     IF fe = "Kaubo" THEN KauboTokenTypeOf(source[i]) ELSE TokenTypeOf(source[i])]

\* parse() of the front end over the tokens
ParseResult(fe, toks) == IF fe = "Kaubo" THEN kaubo_parse(toks) ELSE parse(toks)

\* what the caller of parse() sees: the Result, or, after unwrap() on an Err
\* (Result.h:166-172), the failed assert of a debug build or whatever the
\* read through the null pointer does in a release build ("undefined": the
\* caller gets no Result it could rely on)
Outcomes(r) ==
  IF r.tag = "Unwrap"
  THEN {[tag |-> "abort", val |-> r.val], [tag |-> "undefined", val |-> r.val]}
  ELSE {[tag |-> r.tag, val |-> r.val]}

\* one more lexeme of the source text is written
Write(text, MaxTokens) ==
  /\ psOp.op # "parse"
  /\ Len(ps_source) < MaxTokens
  /\ ps_source' = Append(ps_source, text)
  /\ psOp' = [op |-> "write", fe |-> "none"]
  /\ UNCHANGED <<ps_result, ps_events>>
  /\ UNCHANGED notPS

\* a parser of front end fe is constructed over the source and parse() runs
Parse(fe) ==
  /\ psOp.op # "parse"
  /\ \E r \in {ParseResult(fe, Tokens(fe, ps_source))} :
       /\ \E o \in Outcomes(r) : ps_result' = o
       /\ ps_events' = r.ev
  /\ psOp' = [op |-> "parse", fe |-> fe]
  /\ UNCHANGED ps_source
  /\ UNCHANGED notPS

\* the largest number of lexemes of an expression source
MaxExprTokens == 5

\* the lexemes of an expression source
ExprTexts == {"1", "a", "+", "*", "=", "<"}

WriteExpr == \E text \in ExprTexts : Write(text, MaxExprTokens)

ParseMain == Parse("Parser")

ParseKaubo == Parse("Kaubo")

NextParseExpr == WriteExpr \/ ParseMain \/ ParseKaubo

SpecParseExpr == InitLex /\ [][NextParseExpr]_vars

\* the largest number of lexemes of a source of function calls
MaxCallTokens == 5

\* the lexemes of a source of function calls
CallTexts == {"a", "(", ")", ","}

WriteCall == \E text \in CallTexts : Write(text, MaxCallTokens)

NextParseCall == WriteCall \/ ParseMain \/ ParseKaubo

SpecParseCall == InitLex /\ [][NextParseCall]_vars

\* the largest number of lexemes of a source of postfix expressions
MaxPostfixTokens == 7

\* the lexemes of a source of postfix expressions
PostfixTexts == {"a", ".", "(", ")"}

WritePostfix == \E text \in PostfixTexts : Write(text, MaxPostfixTokens)

NextParsePostfix == WritePostfix \/ ParseMain

SpecParsePostfix == InitLex /\ [][NextParsePostfix]_vars

\* the largest number of lexemes of a source of statements
MaxStmtTokens == 5

\* the lexemes of a source of statements
StmtTexts == {"a", "1", "=", ";", "var", "{", "}"}

WriteStmt == \E text \in StmtTexts : Write(text, MaxStmtTokens)

NextParseStmt == WriteStmt \/ ParseMain

SpecParseStmt == InitLex /\ [][NextParseStmt]_vars

\* the largest number of lexemes of a source of prefix operators
MaxUnaryTokens == 4

\* the lexemes of a source of prefix operators
UnaryTexts == {"+", "-", "!", "not", "1"}

WriteUnary == \E text \in UnaryTexts : Write(text, MaxUnaryTokens)

NextParseUnary == WriteUnary \/ ParseMain

SpecParseUnary == InitLex /\ [][NextParseUnary]_vars

(***************************************************************************)
(* The loops of Parser, one iteration at a time.  An iteration starts with *)
(* the parser at a position of its token stream and either leaves the loop *)
(* (break, return, or the unwrap() of an Err) or comes round to the loop   *)
(* head again with the parser at the position it has reached.  The         *)
(* functions an iteration calls are the ones defined above.                *)
(***************************************************************************)
\* the iteration leaves its loop by break or return
Returns == [tag |-> "returns", val |-> NoNode, pos |-> 0]

\* the iteration ends at the loop head, the parser being where s is
Continues(s) == [tag |-> "continues", val |-> NoNode, pos |-> s.pos]

\* the parser at position p
ParserAt(p) == [pos |-> p, ev |-> <<>>]

\* Parser.cpp:24-32 and 96-104: the statement of the iteration was parsed
AfterStatement(toks, stmt_result) ==
  IF stmt_result.tag # "Ok" THEN Returns
  ELSE Continues(MatchSemicolon(toks, stmt_result))

\* one iteration of the loop of parse_module, Parser.cpp:18-33
ModuleIterationChecksSemicolon(toks, s) ==
  IF ~has_value(toks, s) THEN Returns
  ELSE IF check(toks, s, "Semicolon") THEN Continues(s)
  ELSE AfterStatement(toks, parse_statement(toks, s))

ModuleIteration(toks, s) ==
  IF ~has_value(toks, s) THEN Returns
  ELSE IF check(toks, s, "Semicolon") THEN Continues(consume(s))
  ELSE AfterStatement(toks, parse_statement(toks, s))

\* one iteration of the loop of parse_block, Parser.cpp:90-105
BlockIteration(toks, s) ==
  IF ~(has_value(toks, s) /\ ~check(toks, s, "RightCurlyBrace")) THEN Returns
  ELSE IF check(toks, s, "Semicolon") THEN Continues(consume(s))
  ELSE AfterStatement(toks, parse_statement(toks, s))

\* Parser.cpp:149-162: the right operand of the iteration was parsed
AfterOperand(right_result) ==
  IF right_result.tag # "Ok" THEN Returns ELSE Continues(right_result)

\* one iteration of the loop of parse_expression, Parser.cpp:130-163
ExprIteration(toks, s, precedence) ==
  IF ~has_value(toks, s) THEN Returns
  ELSE IF get_precedence(toks[s.pos]) <= precedence THEN Returns
  ELSE AfterOperand(parse_expression(toks, consume(s), next_precedence(toks[s.pos])))

\* Parser.cpp:408: parse_function_call(expr).unwrap()
AfterCall(r) ==
  IF r.tag = "Ok" THEN Continues(r) ELSE [tag |-> "unwrap", val |-> NoNode, pos |-> r.pos]

\* one iteration of the loop of parse_postfix, Parser.cpp:388-413
PostfixIteration(toks, s) ==
  IF check(toks, s, "Dot")
  THEN IF ~check(toks, consume(s), "Identifier") THEN Returns
       ELSE Continues(consume(consume(s)))
  ELSE IF check(toks, s, "LeftParenthesis")
       THEN AfterCall(parse_function_call(toks, OkR(Node("VarRef", "", 0, <<>>, 0), s)))
  ELSE Returns

\* Parser.cpp:357-366: the argument of the iteration was parsed
AfterArgument(toks, arg_result) ==
  IF arg_result.tag # "Ok" THEN Returns
  ELSE IF check(toks, arg_result, "Comma") THEN Continues(consume(arg_result))
  ELSE Returns

\* one iteration of the argument loop of parse_function_call,
\* Parser.cpp:354-367
ArgumentIteration(toks, s) == AfterArgument(toks, parse_expression(toks, s, 0))

\* one iteration of the parameter loop of parse_lambda, Parser.cpp:243-259
LambdaParamIteration(toks, s) ==
  IF ~check(toks, s, "Identifier") THEN Returns
  ELSE IF check(toks, consume(s), "Comma") THEN Continues(consume(consume(s)))
  ELSE Returns

\* the loops of the parser
Loops == {"module", "block", "binary", "postfix", "argument", "lambda"}

\* the iteration of a loop
Iteration(loop, toks, s, precedence) ==
  CASE loop = "module" -> ModuleIteration(toks, s)
    [] loop = "block" -> BlockIteration(toks, s)
    [] loop = "binary" -> ExprIteration(toks, s, precedence)
    [] loop = "postfix" -> PostfixIteration(toks, s)
    [] loop = "argument" -> ArgumentIteration(toks, s)
    [] OTHER -> LambdaParamIteration(toks, s)

\* the largest number of lexemes of a source whose loops are iterated
MaxLoopTokens == 3

\* the lexemes of a source whose loops are iterated
LoopTexts == {"a", "+", ";", "(", ")", ",", "{", "}", ".", "|"}

\* the minimum precedences parse_expression is called with: 0 by a statement
\* or an argument, the operator's own by the loop itself
LoopPrecedences == {0, 200}

WriteLoop == psOp.op # "iterate" /\ \E text \in LoopTexts : Write(text, MaxLoopTokens)

\* one iteration of a loop, the parser being at position at of the tokens
Iterate(loop) ==
  /\ psOp.op = "write"
  /\ \E at \in 1..(Len(ps_source) + 1), precedence \in LoopPrecedences :
       /\ loop # "binary" => precedence = 0
       /\ psOp' = [op |-> "iterate", fe |-> "Parser", loop |-> loop, at |-> at,
                   precedence |-> precedence]
       /\ ps_result' = Iteration(loop, Tokens("Parser", ps_source), ParserAt(at),
                                 precedence)
  /\ UNCHANGED <<ps_source, ps_events>>
  /\ UNCHANGED notPS

\* parse() over the source
ParseLoops == psOp.op = "write" /\ ParseMain

NextParseLoops == WriteLoop \/ (\E loop \in Loops : Iterate(loop)) \/ ParseLoops

SpecParseLoops == InitLex /\ [][NextParseLoops]_vars

(***************************************************************************)
(* Claims about the ring buffer.                                           *)
(***************************************************************************)
PopSteps == {"pop_take", "pop_throw", "pop_block"}
PushSteps == {"push_write", "push_throw", "push_block"}
ObserveSteps == {"try_peek", "try_peek_k", "is_size_at_least"}
BlockedInPop == {t \in Threads : pc[t] \in {"pop_wait", "pop_woken"}}
BlockedInPush == {t \in Threads : pc[t] \in {"push_wait", "push_woken"}}

\* C1: push and pop are linearizable as a FIFO queue.  In the order of the
\* critical sections the bytes taken by pop()/try_pop() are a prefix of the
\* bytes accepted by push(); the bytes in the ring, read from m_head, are
\* exactly the accepted bytes not yet taken, oldest first, so nothing is lost,
\* duplicated or reordered.
C1_FifoLinearizable ==
  /\ IsPrefix(popped, pushed)
  /\ m_size = Len(pushed) - Len(popped)
  /\ \A i \in 1..Len(Stored) : m_buffer[(m_head + i - 1) % Capacity] = Stored[i]

\* two different bytes were taken in the order they were pushed, the ring has
\* wrapped and still holds a byte
C1_Witness ==
  /\ Len(popped) >= 2
  /\ popped[1] # popped[2]
  /\ m_size > 0
  /\ Len(pushed) > Capacity

\* C2: in every reachable state 0 <= size <= capacity.
C2_SizeInRange == 0 <= m_size /\ m_size <= Capacity

\* the buffer is full and a producer is asleep in push()
C2_Witness == m_size = Capacity /\ not_full # {}

C4_DrainAfterClose ==
  /\ [][(m_closed /\ lastOp'.op \in PopSteps /\ m_size > 0)
          => /\ lastOp'.op = "pop_take"
             /\ lastOp'.val = Some(Head(Stored))
             /\ item'[lastOp'.t] = Head(Stored)
             /\ m_size' = m_size - 1
             /\ popped' = Append(popped, Head(Stored))]_vars
  /\ [][(lastOp'.op = "pop_throw") => (m_size = 0 /\ m_closed)]_vars
  /\ [][(lastOp'.op = "pop_return") => (lastOp'.val = Some(item[lastOp'.t]))]_vars

\* a pop() on the closed buffer took a byte and more are left
C4_Witness == m_closed /\ lastOp.op = "pop_take" /\ m_size > 0

\* C5: push on a closed buffer fails with Closed and changes neither size nor
\* the stored bytes, full or not; once closed, no push is accepted any more.
C5_PushFailsWhenClosed ==
  /\ [][(m_closed /\ lastOp'.op \in PushSteps)
          => /\ lastOp' = Op("push_throw", lastOp'.t, 0, Closed)
             /\ UNCHANGED <<m_buffer, m_head, m_tail, m_size, pushed>>]_vars
  /\ [][m_closed => (m_closed' /\ pushed' = pushed)]_vars

\* a push was refused on a closed buffer that is full
C5_Witness == m_closed /\ lastOp.op = "push_throw" /\ m_size = Capacity

\* C6: try_peek(k) returns None whenever k >= size and the k-th oldest byte
\* when k < size, wherever m_head is.  (try_peek changes nothing, so the
\* state after the call is the state it was made in.)
C6_TryPeekK ==
  (lastOp.op = "try_peek_k")
     => IF lastOp.k >= m_size
        THEN lastOp.val = NullOpt
        ELSE lastOp.val = Some(Stored[lastOp.k + 1])

C8_ObserversArePure ==
  [][(lastOp'.op \in ObserveSteps)
       => UNCHANGED <<m_size, m_head, m_tail, m_buffer, m_closed, pushed, popped>>]_vars

\* an observer ran on a buffer that holds bytes and got one
C8_Witness == lastOp.op \in {"try_peek", "try_peek_k"} /\ m_size > 0 /\ lastOp.val # NullOpt

(***************************************************************************)
(* Claims about the state machine manager.                                 *)
(***************************************************************************)
Accepted == {id \in DOMAIN machines : machines[id].has_accepted}

\* the greatest match_length of an accepted machine
BestLength ==
  CHOOSE n \in {machines[id].match_length : id \in Accepted} :
    \A id \in Accepted : machines[id].match_length <= n

\* the accepted machines of greatest match_length and, among these, of lowest
\* token_type
Winners ==
  {id \in Accepted :
     /\ machines[id].match_length = BestLength
     /\ \A o \in Accepted :
          machines[o].match_length = BestLength
             => machines[id].machine.token_type <= machines[o].machine.token_type}

\* what the spec says select_best_match returns
IsBestMatch(r) ==
  IF Accepted = {} THEN r = <<NoMachine, 0>>
  ELSE r[1] \in Winners /\ r[2] = BestLength

\* C9 as it is stated: select_best_match returns an accepted machine of
\* greatest match_length and, among those, of lowest token_type, with that
\* match_length, and returns the same whatever the iteration order is.
C9_SelectBestMatchAnyOrder ==
  (smOp.op = "select_best_match")
     => /\ IsBestMatch(smOp.ret)
        /\ \A ord \in Perms(DOMAIN machines) :
             select_best_match(machines, ord) = smOp.ret

\* C9, amended: select_best_match returns an accepted machine of greatest
\* match_length and, among those, of lowest token_type, with that
\* match_length; the match_length and the token_type of the winner do not
\* depend on the iteration order, and the winner itself does not either
\* unless two accepted machines share both the greatest match_length and the
\* lowest token_type.
C9_SelectBestMatch ==
  (smOp.op = "select_best_match")
     => /\ IsBestMatch(smOp.ret)
        /\ \A ord \in Perms(DOMAIN machines) :
             /\ IsBestMatch(select_best_match(machines, ord))
             /\ (Cardinality(Winners) <= 1
                   => select_best_match(machines, ord) = smOp.ret)

\* select_best_match ran with every machine accepted, two of them sharing the
\* greatest match_length with different token types, and returned the one of
\* lower token_type although the other was registered first
C9_Witness ==
  /\ smOp.op = "select_best_match"
  /\ Accepted = DOMAIN machines
  /\ Cardinality(Winners) = 1
  /\ \E a, b \in Accepted :
       /\ a > b
       /\ machines[a].match_length = BestLength
       /\ machines[b].match_length = BestLength
       /\ machines[a].machine.token_type < machines[b].machine.token_type
       /\ smOp.ret = <<a, BestLength>>

\* the length of the longest prefix of bytes that takes machine m from its
\* initial state, byte by byte, into an accepting state (0 if there is none)
RECURSIVE LongestAcceptingFrom(_, _, _, _, _)
LongestAcceptingFrom(m, cur, bytes, i, best) ==
  IF i > Len(bytes) THEN best
  ELSE LET nxt == machine_process_event(m, cur, bytes[i]) IN
    IF nxt = -1 THEN best
    ELSE LongestAcceptingFrom(m, nxt, bytes, i + 1,
                              IF is_in_accepting_state(m, nxt) THEN i ELSE best)

LongestAcceptingPrefix(m, bytes) == LongestAcceptingFrom(m, 0, bytes, 1, 0)

\* C10: the match_length returned by select_best_match is the length of the
\* longest prefix of the bytes fed since the last reset() after which the
\* winning machine was in an accepting state.
C10_MatchLengthIsLongestAcceptingPrefix ==
  (smOp.op = "select_best_match" /\ smOp.ret[1] # NoMachine)
     => smOp.ret[2] = LongestAcceptingPrefix(machines[smOp.ret[1]].machine, fed)

\* C11: on process_event(byte) every machine that was active either consumes
\* the byte (it stays active, match_length grows by exactly 1, has_accepted
\* becomes true if the machine is then in an accepting state and is otherwise
\* unchanged) or becomes inactive with match_length and has_accepted
\* unchanged; a machine that was inactive is unchanged.
C11_ProcessEventPerMachine ==
  [][(smOp'.op = "process_event")
       => /\ DOMAIN machines' = DOMAIN machines
          /\ \A id \in DOMAIN machines :
               LET old == machines[id]
                   new == machines'[id]
               IN IF old.is_active
                  THEN \/ /\ new.is_active
                          /\ new.match_length = old.match_length + 1
                          /\ new.has_accepted =
                               (old.has_accepted
                                  \/ is_in_accepting_state(new.machine, new.current))
                       \/ /\ ~new.is_active
                          /\ new.match_length = old.match_length
                          /\ new.has_accepted = old.has_accepted
                  ELSE new = old]_vars

\* process_event has just run: one machine consumed its second byte and has
\* accepted, another one rejected a byte after consuming one
C11_Witness ==
  /\ smOp.op = "process_event"
  /\ \E a, b \in DOMAIN machines :
       /\ machines[a].is_active /\ machines[a].has_accepted
       /\ machines[a].match_length = 2
       /\ ~machines[b].is_active /\ machines[b].match_length = 1

\* C12: once a machine is inactive, no process_event and no add_machine makes
\* it active again or changes its match_length or has_accepted; only reset()
\* does.
C12_RejectedUntilReset ==
  [][\A id \in DOMAIN machines :
       (~machines[id].is_active /\ smOp'.op # "reset")
          => /\ id \in DOMAIN machines'
             /\ ~machines'[id].is_active
             /\ machines'[id].match_length = machines[id].match_length
             /\ machines'[id].has_accepted = machines[id].has_accepted
             /\ \A i \in 1..Len(active_machines') : active_machines'[i] # id]_vars

\* a machine that rejected the first byte is still inactive after a second
\* byte was fed and another machine was added
C12_Witness ==
  /\ smOp.op = "add_machine"
  /\ Len(fed) = 2
  /\ \E id \in DOMAIN machines :
       ~machines[id].is_active /\ machines[id].match_length = 0

\* C13: process_event returns true exactly when at least one machine is
\* active after the call, which is when has_active_machines() holds.
C13_ReturnsAnyActive ==
  (smOp.op = "process_event")
     => /\ (smOp.ret = <<1>>) <=> has_active_machines
        /\ (smOp.ret = <<1>>) <=> (\E id \in DOMAIN machines : machines[id].is_active)
        /\ smOp.ret \in {<<0>>, <<1>>}

\* process_event returned false after the last active machine rejected
C13_Witness ==
  /\ smOp = SMOp("process_event", smOp.byte, <<0>>)
  /\ \E id \in DOMAIN machines : machines[id].match_length > 0

\* C14: after reset() every registered machine is active, in its initial
\* state, with match_length 0 and has_accepted false, and is exactly once in
\* active_machines; the next process_event gives its byte to every registered
\* machine exactly once.
C14_ResetReactivatesAll ==
  /\ [][(smOp'.op = "reset")
          => /\ DOMAIN machines' = DOMAIN machines
             /\ \A id \in DOMAIN machines' :
                  /\ machines'[id].is_active
                  /\ machines'[id].current = 0
                  /\ machines'[id].match_length = 0
                  /\ ~machines'[id].has_accepted
                  /\ machines'[id].machine = machines[id].machine
                  /\ Cardinality({i \in 1..Len(active_machines') :
                                    active_machines'[i] = id}) = 1
             /\ Len(active_machines') = Cardinality(DOMAIN machines)]_vars
  /\ [][(smOp.op = "reset" /\ smOp'.op = "process_event")
          => \A id \in DOMAIN machines :
               LET nxt == machine_process_event(machines[id].machine, 0, smOp'.byte)
               IN IF nxt # -1
                  THEN machines'[id].match_length = 1 /\ machines'[id].current = nxt
                  ELSE machines'[id].match_length = 0 /\ ~machines'[id].is_active]_vars

\* reset() has just run on a manager with all its machines registered and
\* left every one of them active
C14_Witness ==
  /\ smOp.op = "reset"
  /\ Cardinality(DOMAIN machines) = MaxMachines
  /\ fed = <<>>
  /\ \A id \in DOMAIN machines : machines[id].is_active

Cursor == lx_dropped + pos

\* where skip_whitespace leaves the lexer, Lexer.h:91
AfterWhitespace == skip_whitespace(buffer, pos, line, column, last_utf8_error)

\* the bytes fed so far end inside the codepoint that follows the whitespace
\* at the cursor
IncompleteCodepointAhead ==
  /\ AfterWhitespace.pos < Len(buffer)
  /\ get_utf8_codepoint(buffer, AfterWhitespace.pos).err = "IncompleteSequence"

\* C16: when the bytes of the next codepoint are not all there yet,
\* next_token returns None, emits no token (no Utf8Error token either) and
\* consumes none of the codepoint's bytes.
C16_IncompleteReturnsNone ==
  [][(lxOp'.op = "next_token" /\ IncompleteCodepointAhead)
       => /\ lxOp'.ret = <<>>
          /\ tokens' = tokens
          /\ lx_dropped' + pos' = lx_dropped + AfterWhitespace.pos]_vars

\* the Utf8Error tokens emitted so far
Utf8ErrorTokens == {i \in 1..Len(tokens) : tokens[i].tok.type = "Utf8Error"}

TokenBytes(i) == SubSeq(lx_input, tokens[i].from + 1, tokens[i].to)

\* every byte the lexer has gone past lies in the range of exactly one token
\* or was skipped as whitespace, never both; skipped bytes are space, tab,
\* line feed or carriage return; the bytes not gone past are still buffered
ConsumedExactlyOnce ==
  /\ Cursor <= Len(lx_input)
  /\ \A b \in 0..(Cursor - 1) :
       Cardinality({i \in 1..Len(tokens) : tokens[i].from <= b /\ b < tokens[i].to})
         + (IF b \in lx_skipped THEN 1 ELSE 0) = 1
  /\ \A b \in lx_skipped : b < Cursor /\ At(lx_input, b) \in {32, 9, 10, 13}
  /\ SubSeq(buffer, pos + 1, Len(buffer)) = SubSeq(lx_input, Cursor + 1, Len(lx_input))

\* the value of token i is what its bytes spell: the bytes themselves, or the
\* number they are the decimal text of
ValueSpellsBytes(i) ==
  LET t == tokens[i].tok
      bytes == TokenBytes(i)
  IN CASE t.type = "Integer" -> t.value = <<StoLL(bytes, 1, 0)>>
       [] t.type = "String" -> t.value = SubSeq(bytes, 2, Len(bytes) - 1)
       [] t.type = "Float" -> t.value = StoD(bytes, DigitsEnd(bytes, 0) + 1)
       [] OTHER -> t.value = bytes

C19_CoordinatesNonDecreasing ==
  /\ \A i \in 1..Len(tokens) : tokens[i].tok.line >= 1 /\ tokens[i].tok.column >= 1
  /\ \A i, j \in 1..Len(tokens) :
       i < j => \/ tokens[i].tok.line < tokens[j].tok.line
                \/ /\ tokens[i].tok.line = tokens[j].tok.line
                   /\ tokens[i].tok.column <= tokens[j].tok.column

\* C20: columns count codepoints and multi-byte codepoints form identifiers:
\* the text "你好 = 1", given to a lexer with the default matchers in one
\* feed() and read to its end, yields Identifier(你好) at (1,1), the token of
\* "=" at (1,4) and Integer(1) at (1,6).
C20_MultiByteIdentifier ==
  (/\ matchers = DefaultMatchers
   /\ lx_feeds = 1 /\ lx_input = Doc
   /\ lxOp = [op |-> "next_token", ret |-> <<>>]
   /\ Cursor = Len(Doc))
    => /\ Len(tokens) = 3
       /\ tokens[1].tok = Token("Identifier", SubSeq(Doc, 1, 6), 1, 1)
       /\ tokens[2].tok.value = <<61>>
       /\ tokens[2].tok.line = 1 /\ tokens[2].tok.column = 4
       /\ tokens[3].tok = Token("Integer", <<1>>, 1, 6)


(***************************************************************************)
(* Claims about the parsers.                                               *)
(***************************************************************************)

\* parse() of the front end has run over the source
Parsed(fe) == psOp = [op |-> "parse", fe |-> fe]

\* the source is these lexemes and parse() of the front end has run over it
ParsedSource(fe, source) == Parsed(fe) /\ ps_source = source

\* the statements of the module parse() returned
Statements == ps_result.val.kids

\* the expression of the i-th statement, an expression statement
Expression(i) == Statements[i].kids[1]

\* parse() returned a module of one expression statement
OneExpression ==
  /\ ps_result.tag = "Ok"
  /\ ps_result.val.kind = "Module"
  /\ Len(Statements) = 1
  /\ Statements[1].kind = "ExprStmt"

\* the node of the operand at index i of the source
Operand(i) ==
  Node(IF ps_source[i] = "1" THEN "LiteralInt" ELSE "VarRef", "", i, <<>>, i)

\* the Binary node of the operator at index i of the source
BinaryOf(i, left, right) ==
  Node("Binary", TokenTypeOf(ps_source[i]), 0, <<left, right>>, left.from)

\* the source is operand operator operand operator operand
TwoOperators(ops) ==
  /\ Len(ps_source) = 5
  /\ \A i \in {1, 3, 5} : ps_source[i] \in {"1", "a"}
  /\ \A i \in {2, 4} : ps_source[i] \in ops

\* how tightly the language has an operator bind
Level(text) == CASE text = "*" -> 3 [] text = "+" -> 2 [] text = "<" -> 1 [] OTHER -> 0

LeftNested == BinaryOf(4, BinaryOf(2, Operand(1), Operand(3)), Operand(5))

RightNested == BinaryOf(2, Operand(1), BinaryOf(4, Operand(3), Operand(5)))

\* C21: parse_expression climbs precedences: in x op1 y op2 z the tighter
\* operator is the deeper node, so 1 + 2 * 3 is Binary(+, 1, Binary(*, 2, 3))
\* and 1 * 2 + 3 is Binary(+, Binary(*, 1, 2), 3), and two operators of equal
\* precedence nest to the left.
C21_PrecedenceClimbing ==
  (Parsed("Parser") /\ TwoOperators({"+", "*", "<"})) =>
    /\ OneExpression
    /\ Expression(1) = IF Level(ps_source[4]) > Level(ps_source[2])
                       THEN RightNested ELSE LeftNested

\* 1 + 2 * 3 was parsed into Binary(+, 1, Binary(*, 2, 3))
C21_Witness ==
  /\ ParsedSource("Parser", <<"1", "+", "1", "*", "1">>)
  /\ OneExpression
  /\ Expression(1) = RightNested

\* C22: assignment is right-associative: in a = b = 1 the outer = has a on
\* its left and b = 1 on its right.
C22_AssignmentRightAssociative ==
  ParsedSource("Parser", <<"a", "=", "a", "=", "1">>) =>
    /\ OneExpression
    /\ Expression(1).op = "Equal"
    /\ Expression(1).kids[1] = Operand(1)
    /\ Expression(1).kids[2].op = "Equal"
    /\ Expression(1).kids[2].kids = <<Operand(3), Operand(5)>>

\* C23: parse() returns Ok(Module) or Err(error) for every token stream; it
\* never aborts and never unwraps an error, nested productions included.
C23_ParseReturnsResult ==
  Parsed("Parser") =>
    \/ ps_result.tag = "Ok" /\ ps_result.val.kind = "Module"
    \/ ps_result.tag = "Err" /\ ps_result.val.kind = "Error"

\* C27: a trailing comma in an argument list is not accepted: on f(a,)
\* parse() returns an error and builds no FunctionCall node.
C27_TrailingCommaIsError ==
  (psOp.op = "parse" /\ ps_source = <<"a", "(", "a", ",", ")">>) =>
    /\ ps_result.tag = "Err"
    /\ \A i \in 1..Len(ps_events) : ps_events[i].node.kind # "FunctionCall"

\* how many times the listeners got the callback
Fired(cb) == Cardinality({i \in 1..Len(ps_events) : ps_events[i].cb = cb})

\* the exit callbacks that carried the node
ExitsOf(cb, node) ==
  Cardinality({i \in 1..Len(ps_events) :
                 ps_events[i].cb = cb /\ ps_events[i].node = node})

RECURSIVE StatementsIn(_), StatementsInAll(_, _)

\* the statement nodes of a run of statements, nested ones included
StatementsInAll(stmts, i) ==
  IF i > Len(stmts) THEN {} ELSE StatementsIn(stmts[i]) \cup StatementsInAll(stmts, i + 1)

\* the statement nodes in a statement, itself included
StatementsIn(stmt) ==
  {stmt} \cup (IF stmt.kind = "Block" THEN StatementsInAll(stmt.kids, 1) ELSE {})

\* C24: a parse that succeeds fires on_enter_module and on_exit_module once
\* each, and one enter_statement and one matching exit_statement for every
\* statement of every variant: block, declaration, empty and expression
\* statement.
C24_OneEnterOneExit ==
  (Parsed("Parser") /\ ps_result.tag = "Ok") =>
    /\ Fired("enter_module") = 1
    /\ Fired("exit_module") = 1
    /\ Fired("enter_statement") = Fired("exit_statement")
    /\ \A stmt \in StatementsInAll(Statements, 1) : ExitsOf("exit_statement", stmt) = 1
    /\ Fired("enter_expr") = Fired("exit_expr")

RECURSIVE EnterBefore(_, _)

\* the enter_expr that an exit_expr closes: the nearest one before index i
\* that no exit_expr in between has closed (depth counts those still open);
\* 0 when there is none
EnterBefore(i, depth) ==
  IF i = 0 THEN 0
  ELSE IF ps_events[i].cb = "exit_expr" THEN EnterBefore(i - 1, depth + 1)
  ELSE IF ps_events[i].cb # "enter_expr" THEN EnterBefore(i - 1, depth)
  ELSE IF depth = 0 THEN i
  ELSE EnterBefore(i - 1, depth - 1)

\* C25: the enter callback of an expression fires before the first token of
\* the expression is consumed and its exit callback after the node is built:
\* at the enter that an exit_expr(node) closes, the parser has consumed
\* exactly the tokens before the node's first token.
C25_EnterBeforeFirstToken ==
  Parsed("Parser") =>
    \A j \in 1..Len(ps_events) :
      ps_events[j].cb = "exit_expr" =>
        /\ EnterBefore(j - 1, 0) > 0
        /\ ps_events[EnterBefore(j - 1, 0)].at = ps_events[j].node.from - 1

\* the source is a run of prefix operators and then one integer literal
PrefixRun(ops) ==
  /\ Len(ps_source) >= 2
  /\ ps_source[Len(ps_source)] = "1"
  /\ \A i \in 1..(Len(ps_source) - 1) : ps_source[i] \in ops

RECURSIVE UnaryChain(_)

\* the right-nested chain of Unary nodes of the operators from index i on,
\* around the operand at the end of the source
UnaryChain(i) ==
  IF i = Len(ps_source) THEN Operand(i)
  ELSE Node("Unary", TokenTypeOf(ps_source[i]), 0, <<UnaryChain(i + 1)>>, i)

\* C26: a run of the prefix operators +, - and ! before a primary parses
\* into a right-nested chain of Unary nodes, for each of the three.
C26_PrefixOperators ==
  (Parsed("Parser") /\ PrefixRun({"+", "-", "!"})) =>
    /\ OneExpression
    /\ Expression(1) = UnaryChain(1)

\* the MemberAccess node of the member named at index i of the source
MemberOf(object, i) == Node("MemberAccess", "", i, <<object>>, object.from)

\* the expressions after which the source goes on with a postfix dot:
\* a, a.a, a() and, inside an argument list, a(a
PostfixHeads ==
  {<<"a">>, <<"a", ".", "a">>, <<"a", "(", ")">>, <<"a", "(", "a">>}

\* the source is one of the heads, a dot, and then no identifier
DotWithoutIdentifier ==
  \E head \in PostfixHeads :
    /\ Len(ps_source) > Len(head)
    /\ SubSeq(ps_source, 1, Len(head) + 1) = head \o <<".">>
    /\ Len(ps_source) > Len(head) + 1 => ps_source[Len(head) + 2] # "a"

\* C28: postfix operators apply left to right: a.b.c() is
\* FunctionCall(MemberAccess(MemberAccess(VarRef a, b), c), no arguments),
\* and a dot that no identifier follows makes parse() return
\* ExpectedIdentifierAfterDot.
C28_PostfixLeftToRight ==
  /\ ParsedSource("Parser", <<"a", ".", "a", ".", "a", "(", ")">>) =>
       /\ OneExpression
       /\ Expression(1) =
            Node("FunctionCall", "", 0,
                 <<MemberOf(MemberOf(Operand(1), 3), 5)>>, 1)
  /\ (Parsed("Parser") /\ DotWithoutIdentifier) =>
       ps_result = [tag |-> "Err", val |-> ErrNode("ExpectedIdentifierAfterDot")]

\* the token type of a lexeme in the front end
TypeIn(fe, text) == IF fe = "Kaubo" THEN KauboTokenTypeOf(text) ELSE TokenTypeOf(text)

\* how tightly the language has an operator bind, = being the loosest
Rank(text) == IF text = "=" THEN 0 ELSE Level(text)

\* the looser of the two operators of the source
Looser == IF Rank(ps_source[2]) < Rank(ps_source[4]) THEN ps_source[2] ELSE ps_source[4]

\* C29: in every parser front end * binds tighter than +, + tighter than the
\* comparisons, and the comparisons tighter than =: of two operators of
\* different levels the looser one is the root of the expression, and
\* a + b < c is Binary(<, Binary(+, a, b), c).
C29_PrecedenceOrder ==
  \A fe \in {"Parser", "Kaubo"} :
    /\ (Parsed(fe) /\ TwoOperators({"*", "+", "<", "="})
          /\ Rank(ps_source[2]) # Rank(ps_source[4])) =>
         /\ OneExpression
         /\ Expression(1).op = TypeIn(fe, Looser)
    /\ ParsedSource(fe, <<"a", "+", "a", "<", "a">>) =>
         /\ OneExpression
         /\ Expression(1).op = TypeIn(fe, "<")
         /\ Expression(1).kids[1].op = TypeIn(fe, "+")
         /\ Expression(1).kids[1].kids[1].text = 1
         /\ Expression(1).kids[1].kids[2].text = 3
         /\ Expression(1).kids[2].text = 5

\* C30: an expression statement must end with a semicolon: 1 2, two integer
\* literals with nothing between them, is rejected with an error.
C30_ExpressionStatementNeedsSemicolon ==
  (psOp.op = "parse" /\ ps_source = <<"1", "1">>) => ps_result.tag = "Err"

(***************************************************************************)
(* Claims about the UTF-8 codec.                                           *)
(***************************************************************************)

\* get_utf8_codepoint was called at position p of the string
Decoded(p) == u8_call = [op |-> "get_utf8_codepoint", arg |-> p]

\* the length the leading byte announces: 0xxxxxxx, 110xxxxx, 1110xxxx,
\* 11110xxx, and 0 for a byte that leads nothing
LeadLength(b) ==
  CASE b < 128 -> 1 [] b \in 192..223 -> 2 [] b \in 224..239 -> 3
    [] b \in 240..247 -> 4 [] OTHER -> 0

\* the smallest codepoint that needs this many bytes
MinimumFor(length) ==
  CASE length = 1 -> 0 [] length = 2 -> 128 [] length = 3 -> 2048 [] length = 4 -> 65536

RECURSIVE Assembled(_, _, _, _)

\* the payload bits of the continuation bytes from index i on appended to acc
Assembled(bytes, i, last, acc) ==
  IF i > last THEN acc ELSE Assembled(bytes, i + 1, last, acc * 64 + (bytes[i] % 64))

\* the codepoint the length bytes at position p spell
Spelled(bytes, p, length) ==
  Assembled(bytes, p + 2, p + length,
            CASE length = 1 -> bytes[p + 1] [] length = 2 -> bytes[p + 1] % 32
              [] length = 3 -> bytes[p + 1] % 16 [] length = 4 -> bytes[p + 1] % 8)

\* what decode(bytes, p) is to return: the first check of the fixed order
\* that fails, or the codepoint and its length
Expected(bytes, p) ==
  IF p >= Len(bytes) THEN Err("InvalidPosition")
  ELSE IF LeadLength(bytes[p + 1]) = 0 THEN Err("InvalidLeadingByte")
  ELSE IF p + LeadLength(bytes[p + 1]) > Len(bytes) THEN Err("IncompleteSequence")
  ELSE IF \E i \in (p + 2)..(p + LeadLength(bytes[p + 1])) : bytes[i] \notin 128..191
       THEN Err("InvalidContinuation")
  ELSE IF Spelled(bytes, p, LeadLength(bytes[p + 1])) < MinimumFor(LeadLength(bytes[p + 1]))
       THEN Err("OverlongEncoding")
  ELSE IF Spelled(bytes, p, LeadLength(bytes[p + 1])) > 1114111
       THEN Err("InvalidCodePoint")
  ELSE Ok(<<Spelled(bytes, p, LeadLength(bytes[p + 1])), LeadLength(bytes[p + 1])>>)

\* C31: decode(bytes, offset) applies its checks in a fixed order and reports
\* the first that fails: InvalidPosition, InvalidLeadingByte,
\* IncompleteSequence, InvalidContinuation, OverlongEncoding,
\* InvalidCodePoint; otherwise it returns the codepoint and a length in 1..4;
\* it reads no byte at or beyond the length of the input.
C31_DecodeChecksInOrder ==
  \A p \in 0..(MaxU8Len + 1) :
    Decoded(p) =>
      /\ u8_result = Expected(u8_input, p)
      /\ u8_result.ok => u8_result.val[2] \in 1..4
      /\ \A q \in ReadPositions(u8_input, p) : q < Len(u8_input)

\* F4 90 80 80 was decoded: complete, well continued, not overlong, and above
\* 0x10FFFF
C31_Witness ==
  /\ Decoded(0)
  /\ u8_input = <<244, 144, 128, 128>>
  /\ u8_result = Err("InvalidCodePoint")

\* to_utf8(cp) was called and its bytes decoded at position 0
Encoded(cp) == u8_call = [op |-> "to_utf8", arg |-> cp]

\* C32: for every codepoint cp <= 0x10FFFF outside the surrogate range
\* D800..DFFF, decode(to_utf8(cp), 0) succeeds with (cp, len), len being the
\* number of bytes of to_utf8(cp).
C32_RoundTrip ==
  (/\ u8_call.op = "to_utf8"
   /\ u8_call.arg <= 1114111
   /\ u8_call.arg \notin 55296..57343) =>
    u8_result = Ok(<<u8_call.arg, Len(u8_input)>>)

\* U+10FFFF was encoded into F4 8F BF BF and decoded again
C32_Witness ==
  /\ Encoded(1114111)
  /\ u8_input = <<244, 143, 191, 191>>
  /\ u8_result = Ok(<<1114111, 4>>)

(***************************************************************************)
(* Claims about keyword machines.                                          *)
(***************************************************************************)

\* the keyword a keyword machine of this token type is built for
KeywordOf(type) == IF type = Var THEN <<"v", "a", "r">> ELSE <<"i", "f">>

RECURSIVE KeywordProgress(_, _, _, _)

\* how many bytes of the keyword have been consumed once the bytes offered
\* from index i on are through: a byte is consumed when it is the next byte
\* of the keyword, k bytes being consumed so far
KeywordProgress(keyword, offered, i, k) ==
  IF i > Len(offered) THEN k
  ELSE IF k < Len(keyword) /\ offered[i] = keyword[k + 1]
       THEN KeywordProgress(keyword, offered, i + 1, k + 1)
  ELSE KeywordProgress(keyword, offered, i + 1, k)

\* bytes of the keyword consumed after all the bytes offered
ConsumedNow == KeywordProgress(KeywordOf(machines[0].machine.token_type), fed, 1, 0)

\* bytes of the keyword consumed before the byte offered last
ConsumedBefore ==
  KeywordProgress(KeywordOf(machines[0].machine.token_type),
                  SubSeq(fed, 1, Len(fed) - 1), 1, 0)

\* C33: a keyword machine for a keyword of n bytes is in an accepting state
\* only after consuming exactly the n bytes of the keyword in order; it
\* rejects the first byte that deviates and any byte offered after the n-th.
C33_KeywordMachine ==
  (machines # <<>> /\ smOp.op \in {"add_machine", "machine_process_event"}) =>
    /\ is_in_accepting_state(machines[0].machine, machines[0].current)
         <=> ConsumedNow = Len(KeywordOf(machines[0].machine.token_type))
    /\ smOp.op = "machine_process_event" =>
         /\ (smOp.ret = <<1>>) <=> (ConsumedNow = ConsumedBefore + 1)
         /\ (ConsumedBefore = Len(KeywordOf(machines[0].machine.token_type)))
              => smOp.ret = <<0>>

\* i, f and one more f were offered to the machine of if: it consumed i and
\* f, is accepting, and rejected the third byte
C33_Witness ==
  /\ smOp = SMOp("machine_process_event", "f", <<0>>)
  /\ fed = <<"i", "f", "f">>
  /\ machines[0].machine.token_type = If
  /\ is_in_accepting_state(machines[0].machine, machines[0].current)

(***************************************************************************)
(* Claims about utils::Result.                                             *)
(***************************************************************************)

\* C34: exactly one of is_ok() and is_err() holds of a Result; map and
\* and_then apply f to the value of an Ok and return an Err unchanged without
\* applying f; map_err and or_else apply f to the error of an Err and return
\* an Ok unchanged without applying f.
C34_ResultCombinators ==
  /\ is_ok(rs_self) # is_err(rs_self)
  /\ is_ok(rs_out.result) # is_err(rs_out.result)
  /\ (rs_call.op \in {"map", "and_then"} /\ rs_self.alt = "ErrValue") =>
       rs_out = [result |-> rs_self, calls |-> <<>>]
  /\ (rs_call.op \in {"map_err", "or_else"} /\ rs_self.alt = "OkValue") =>
       rs_out = [result |-> rs_self, calls |-> <<>>]
  /\ (rs_call.op = "map" /\ rs_self.alt = "OkValue") =>
       /\ rs_out.calls = <<rs_self.value>>
       /\ rs_out.result = [alt |-> "OkValue", value |-> Invoke(rs_call.f, rs_self.value)]
  /\ (rs_call.op = "map_err" /\ rs_self.alt = "ErrValue") =>
       /\ rs_out.calls = <<rs_self.value>>
       /\ rs_out.result = [alt |-> "ErrValue", value |-> Invoke(rs_call.f, rs_self.value)]
  /\ (rs_call.op \in {"and_then", "or_else"}
        /\ rs_self.alt = (IF rs_call.op = "and_then" THEN "OkValue" ELSE "ErrValue")) =>
       /\ rs_out.calls = <<rs_self.value>>
       /\ rs_out.result = Invoke(rs_call.f, rs_self.value)

\* map(successor) was called on Err(3): Err(3) came back and successor was
\* not called
C34_Witness ==
  /\ rs_self = [alt |-> "ErrValue", value |-> 3]
  /\ rs_call = [op |-> "map", f |-> "successor"]
  /\ rs_out = [result |-> [alt |-> "ErrValue", value |-> 3], calls |-> <<>>]

(***************************************************************************)
(* Claims about the garbage collector.                                     *)
(***************************************************************************)

RECURSIVE ReachableFrom(_, _)

\* the objects reachable from a set of objects through getReferences()
\* edges, seen being those found so far
ReachableFrom(frontier, seen) ==
  IF frontier \subseteq seen THEN seen
  ELSE ReachableFrom(UNION {references[o] : o \in frontier}, seen \cup frontier)

\* the objects reachable from the current root set
Reachable == ReachableFrom(rootObjects, {})

\* a call of collectGarbage that returns
Collection ==
  /\ gcOp'.op = "collectGarbage"
  /\ gcOp'.collections = gcOp.collections + 1
  /\ gcOp'.outcome = "returned"

\* C35: no collection, the first or a later one, deletes or unregisters an
\* object that is reachable from the current root set through
\* getReferences() edges.
C35_ReachableObjectsSurvive ==
  [][Collection =>
       \A obj \in Reachable \ deleted :
         /\ obj \notin deleted'
         /\ obj \in allObjects => obj \in allObjects']_vars

\* C38: after collectGarbage() returns, no registered object that was
\* unreachable from every root when the collection started remains in
\* allObjects or rootObjects: all garbage, cycles included, is reclaimed in
\* that one collection.
C38_GarbageReclaimedAtOnce ==
  [][Collection =>
       \A obj \in allObjects \ Reachable :
         obj \notin allObjects' \cup rootObjects']_vars

\* C39: after collectGarbage() returns, the mark flag of every surviving
\* object is cleared, be the object in allObjects or only in rootObjects.
C39_MarksClearedAfterCollection ==
  (gcOp.op = "collectGarbage" /\ gcOp.outcome = "returned") =>
    \A obj \in allObjects \cup rootObjects : ~marked[obj]

(***************************************************************************)
(* Claims about feeding the lexer in pieces.                               *)
(***************************************************************************)

RECURSIVE TokensUntilNone(_, _, _)

\* the tokens next_token returns until it returns std::nullopt, r being what
\* its last call left and returned, acc the tokens before
TokensUntilNone(r, ms, acc) ==
  IF r.ret = <<>> THEN acc
  ELSE TokensUntilNone(
         next_token(r.buffer, r.pos, r.line, r.column, r.last_utf8_error, ms),
         ms, Append(acc, r.ret[1]))

\* the tokens of a fresh lexer that is fed the whole input in one call
FedAtOnce(input, ms) ==
  TokensUntilNone(next_token(input, 0, 1, 1, "nullopt", ms), ms, <<>>)

\* the tokens returned so far: kind, lexeme, line and column
TokensReturned == [i \in 1..Len(tokens) |-> tokens[i].tok]

\* C36: the tokens do not depend on how the input is split across calls of
\* feed: fed in one call or in several, with next_token called in between
\* until it returns None, the same tokens (kinds, lexemes, coordinates) come
\* out.
C36_SplitIndependent ==
  (Drained /\ matchers = DefaultMatchers) =>
    TokensReturned = FedAtOnce(lx_input, matchers)

(***************************************************************************)
(* Claims about the termination of the parser.                             *)
(***************************************************************************)

====
